---- MODULE Spec2Model ----
(***************************************************************************)
(* Model of the NetEase extractor of JaggerH/automate:                     *)
(*   src/src/utils/netease_crypto.py       the EAPI envelope codec         *)
(*   src/src/extractors/netease_extractor.py   the playlist/songs          *)
(*                                          correlation and persistence    *)
(* Bodies on the wire are byte sequences; JSON documents are tagged        *)
(* values; Python dicts are sequences of key/value pairs in insertion      *)
(* order.                                                                  *)
(***************************************************************************)
EXTENDS Integers, Sequences, FiniteSets, Bags, TLC

VARIABLES
    crypto,               \* self.crypto is set (TRUE) or None (FALSE)
    playlist_track_ids,   \* self.playlist_track_ids : playlist id -> list of ids
    pending_playlists,    \* self.pending_playlists  : playlist id -> response_data
    temp_songs_storage,   \* self.temp_songs_storage : key -> stored songs
    last_playlist_id,     \* self._last_playlist_id
    files,                \* output_dir: file name -> document written
    flows,                \* bag of flows whose request was handled, response not yet
    now,                  \* time.time()
    shell_observed_at,    \* history: when each pending shell was stored
    last,                 \* history: what the last handler call did
    directory,            \* FlowReproducer: the recorded exchanges of the directory
    remaining,            \* FlowReproducer: those not yet reproduced
    first,                \* FlowReproducer: the files after the first pass
    cin,                  \* codec: the document whose encryption is decoded
    cout,                 \* codec: the result of the decoding
    mreq,                 \* matcher: the requested song ids
    mout,                 \* matcher: the matcher's answer
    disk,                 \* sink: path -> bytes of the file at that path
    writer,               \* sink: where the write in progress stands
    seen,                 \* sink: what a reader got who opened the final path
    writable,             \* sink: writes to the output directory succeed
    db,                   \* sync_music: the rows of the database
    sync_last,            \* sync_music: the last call and what it returned
    last_cookie_extract_by_user,  \* self.last_cookie_extract_by_user
    cookie_saved_at,      \* history: user key -> when its cookie file was last saved
    cookie_last           \* history: what the last cookie handler call saved

vars == <<crypto, playlist_track_ids, pending_playlists, temp_songs_storage,
          last_playlist_id, files, flows, now, shell_observed_at, last,
          directory, remaining, first, cin, cout, mreq, mout,
          disk, writer, seen, writable, db, sync_last,
          last_cookie_extract_by_user, cookie_saved_at, cookie_last>>

extractorVars == <<crypto, playlist_track_ids, pending_playlists,
                   temp_songs_storage, last_playlist_id, files, flows, now,
                   shell_observed_at, last>>
codecVars == <<cin, cout>>
matchVars == <<mreq, mout>>
replayVars == <<directory, remaining, first>>
sinkVars == <<disk, writer, seen, writable>>
syncVars == <<db, sync_last>>
cookieVars == <<last_cookie_extract_by_user, cookie_saved_at, cookie_last>>

----------------------------------------------------------------------------
(* Python values.  None, bool, int, str (a sequence of code points), list   *)
(* and dict (a sequence of [k, v] pairs in insertion order).                *)

None == [t |-> "none"]
PyBool(b) == [t |-> "bool", v |-> b]
PyInt(n) == [t |-> "int", v |-> n]
PyStr(s) == [t |-> "str", v |-> s]
PyList(s) == [t |-> "list", v |-> s]
PyDict(s) == [t |-> "dict", v |-> s]

IsNone(x) == x.t = "none"
IsInt(x) == x.t = "int"
IsStr(x) == x.t = "str"
IsList(x) == x.t = "list"
IsDict(x) == x.t = "dict"

\* Python ==: values of different types are unequal (bool/int aside, which
\* the documents of this model do not mix).
PyEq(a, b) == a.t = b.t /\ (a.t = "none" \/ a.v = b.v)

\* Python truthiness: `not x` is ~Truthy(x).
Truthy(x) ==
    CASE x.t = "none" -> FALSE
      [] x.t = "bool" -> x.v
      [] x.t = "int" -> x.v # 0
      [] OTHER -> Len(x.v) > 0

RECURSIVE KeyIndex(_, _, _)
KeyIndex(pairs, k, i) ==
    IF i > Len(pairs) THEN 0
    ELSE IF pairs[i].k = k THEN i
    ELSE KeyIndex(pairs, k, i + 1)

\* `k in d`
DictHas(d, k) == KeyIndex(d.v, k, 1) # 0
\* `d.get(k, default)`
DictGet(d, k, default) ==
    LET i == KeyIndex(d.v, k, 1) IN IF i = 0 THEN default ELSE d.v[i].v
\* `d[k] = x`: an existing key keeps its place, a new key goes last.
DictSet(d, k, x) ==
    LET i == KeyIndex(d.v, k, 1) IN
    IF i = 0 THEN PyDict(Append(d.v, [k |-> k, v |-> x]))
    ELSE PyDict([d.v EXCEPT ![i] = [k |-> k, v |-> x]])

----------------------------------------------------------------------------
(* Text.  A str is a sequence of code points; the names below are the       *)
(* ASCII codes of the keys and literals the extractor reads.                *)

S_playlist == <<112, 108, 97, 121, 108, 105, 115, 116>>
S_id == <<105, 100>>
S_name == <<110, 97, 109, 101>>
S_trackIds == <<116, 114, 97, 99, 107, 73, 100, 115>>
S_tracks == <<116, 114, 97, 99, 107, 115>>
S_trackCount == <<116, 114, 97, 99, 107, 67, 111, 117, 110, 116>>
S_songs == <<115, 111, 110, 103, 115>>
S_privileges == <<112, 114, 105, 118, 105, 108, 101, 103, 101, 115>>
S_c == <<99>>
S_ids == <<105, 100, 115>>
S_type == <<116, 121, 112, 101>>
S_songs_data == <<115, 111, 110, 103, 115, 95, 100, 97, 116, 97>>
S_matched_songs_data ==
    <<109, 97, 116, 99, 104, 101, 100, 95>> \o S_songs_data
S_playlist_id == S_playlist \o <<95, 105, 100>>
S_songs_batch == <<115, 111, 110, 103, 115, 95, 98, 97, 116, 99, 104>>
S_params == <<112, 97, 114, 97, 109, 115, 61>>          \* 'params='
S_empty == <<>>

IsDigit(c) == c >= 48 /\ c <= 57

RECURSIVE DigitsOf(_)
DigitsOf(n) ==
    IF n < 10 THEN <<48 + n>> ELSE Append(DigitsOf(n \div 10), 48 + (n % 10))

\* str(n) for an int
IntToStr(n) == IF n < 0 THEN <<45>> \o DigitsOf(0 - n) ELSE DigitsOf(n)

\* s.isdigit() for the ASCII text of this model: non-empty, all digits
StrIsDigit(s) == Len(s) > 0 /\ \A i \in 1..Len(s) : IsDigit(s[i])

RECURSIVE DigitsValue(_, _)
DigitsValue(s, acc) ==
    IF Len(s) = 0 THEN acc
    ELSE DigitsValue(Tail(s), acc * 10 + (Head(s) - 48))

\* int(s) for a string of digits
StrToInt(s) == DigitsValue(s, 0)

\* str(x) for None, an int or a str
PyStrOf(x) ==
    CASE x.t = "str" -> x.v
      [] x.t = "int" -> IntToStr(x.v)
      [] OTHER -> <<78, 111, 110, 101>>                  \* 'None'

----------------------------------------------------------------------------
(* json.loads and json.dumps over the text above.  Numbers are integers;    *)
(* a fraction, an exponent or a \u escape is outside the documents of this  *)
(* model and is reported as a parse failure.                                *)

\* `x = e; ...`: the rest, F, with x bound to the value of e
With(v, F(_)) == F(v)

IsWs(c) == c \in {32, 9, 10, 13}

RECURSIVE SkipWs(_, _)
SkipWs(s, i) == IF i <= Len(s) /\ IsWs(s[i]) THEN SkipWs(s, i + 1) ELSE i

ParseFail == [ok |-> FALSE, val |-> None, next |-> 0]
ParseOk(v, n) == [ok |-> TRUE, val |-> v, next |-> n]

StartsWithAt(s, i, lit) ==
    /\ i + Len(lit) - 1 <= Len(s)
    /\ \A k \in 1..Len(lit) : s[i + k - 1] = lit[k]

Unescape(c) ==
    CASE c = 110 -> 10 [] c = 116 -> 9 [] c = 114 -> 13
      [] c = 98 -> 8 [] c = 102 -> 12 [] OTHER -> c

\* the least element of a non-empty set of integers
MinOf(S) == CHOOSE x \in S : \A y \in S : x <= y

\* the body of a string literal, from the character after the opening quote:
\* plain characters up to the next quote, backslash or control character
RECURSIVE ScanString(_, _, _)
ScanString(s, i, acc) ==
    With({j \in i..Len(s) : s[j] = 34 \/ s[j] = 92 \/ s[j] < 32},
         LAMBDA stops :
    IF stops = {} THEN ParseFail
    ELSE With(MinOf(stops), LAMBDA j :
    IF s[j] = 34 THEN ParseOk(PyStr(acc \o SubSeq(s, i, j - 1)), j + 1)
    ELSE IF s[j] = 92 THEN
        IF j + 1 <= Len(s) /\ s[j + 1] \in {34, 92, 47, 110, 116, 114, 98, 102}
        THEN ScanString(s, j + 2,
                 Append(acc \o SubSeq(s, i, j - 1), Unescape(s[j + 1])))
        ELSE ParseFail
    ELSE ParseFail))

RECURSIVE ScanDigits(_, _)
ScanDigits(s, i) ==
    IF i <= Len(s) /\ IsDigit(s[i]) THEN ScanDigits(s, i + 1) ELSE i

\* the digits of a number from j to before e, negated when neg
NumberAt(s, neg, j, e) ==
    IF e = j THEN ParseFail
    ELSE IF e <= Len(s) /\ s[e] \in {46, 101, 69} THEN ParseFail
    ELSE ParseOk(PyInt(IF neg THEN 0 - StrToInt(SubSeq(s, j, e - 1))
                       ELSE StrToInt(SubSeq(s, j, e - 1))), e)

DigitsEnd(s, j) ==
    IF j <= Len(s) /\ s[j] = 48 THEN j + 1 ELSE ScanDigits(s, j)

ScanNumber(s, i) ==
    IF s[i] = 45 THEN NumberAt(s, TRUE, i + 1, DigitsEnd(s, i + 1))
    ELSE NumberAt(s, FALSE, i, DigitsEnd(s, i))

RECURSIVE ParseValue(_, _), ParseElements(_, _, _), ParseMembers(_, _, _)
ParseValue(s, i0) ==
    With(SkipWs(s, i0), LAMBDA i :
    IF i > Len(s) THEN ParseFail
    ELSE IF s[i] = 123 THEN
        With(SkipWs(s, i + 1), LAMBDA j :
        IF j <= Len(s) /\ s[j] = 125 THEN ParseOk(PyDict(<<>>), j + 1)
        ELSE ParseMembers(s, j, PyDict(<<>>)))
    ELSE IF s[i] = 91 THEN
        With(SkipWs(s, i + 1), LAMBDA j :
        IF j <= Len(s) /\ s[j] = 93 THEN ParseOk(PyList(<<>>), j + 1)
        ELSE ParseElements(s, j, <<>>))
    ELSE IF s[i] = 34 THEN ScanString(s, i + 1, <<>>)
    ELSE IF s[i] = 45 \/ IsDigit(s[i]) THEN ScanNumber(s, i)
    ELSE IF StartsWithAt(s, i, <<110, 117, 108, 108>>) THEN ParseOk(None, i + 4)
    ELSE IF StartsWithAt(s, i, <<116, 114, 117, 101>>)
        THEN ParseOk(PyBool(TRUE), i + 4)
    ELSE IF StartsWithAt(s, i, <<102, 97, 108, 115, 101>>)
        THEN ParseOk(PyBool(FALSE), i + 5)
    ELSE ParseFail)

ParseElements(s, i, acc) ==
    With(ParseValue(s, i), LAMBDA r :
    IF ~r.ok THEN ParseFail
    ELSE With(SkipWs(s, r.next), LAMBDA j :
         IF j > Len(s) THEN ParseFail
         ELSE IF s[j] = 44 THEN ParseElements(s, j + 1, Append(acc, r.val))
         ELSE IF s[j] = 93 THEN ParseOk(PyList(Append(acc, r.val)), j + 1)
         ELSE ParseFail))

ParseMembers(s, i, acc) ==
    IF i > Len(s) \/ s[i] # 34 THEN ParseFail
    ELSE With(ScanString(s, i + 1, <<>>), LAMBDA key :
    IF ~key.ok THEN ParseFail
    ELSE With(SkipWs(s, key.next), LAMBDA j :
    IF j > Len(s) \/ s[j] # 58 THEN ParseFail
    ELSE With(ParseValue(s, j + 1), LAMBDA r :
    IF ~r.ok THEN ParseFail
    ELSE With(SkipWs(s, r.next), LAMBDA k :
         IF k > Len(s) THEN ParseFail
         ELSE IF s[k] = 44
             THEN ParseMembers(s, SkipWs(s, k + 1),
                               DictSet(acc, key.val.v, r.val))
         ELSE IF s[k] = 125
             THEN ParseOk(DictSet(acc, key.val.v, r.val), k + 1)
         ELSE ParseFail))))

\* json.loads(s): [ok, val]; ok = FALSE stands for json.JSONDecodeError
json_loads(s) ==
    With(ParseValue(s, 1), LAMBDA r :
    IF r.ok /\ SkipWs(s, r.next) = Len(s) + 1
    THEN [ok |-> TRUE, val |-> r.val]
    ELSE [ok |-> FALSE, val |-> None])

\* the character written after the backslash for c
Escape(c) ==
    CASE c = 10 -> 110 [] c = 9 -> 116 [] c = 13 -> 114
      [] c = 8 -> 98 [] c = 12 -> 102 [] OTHER -> c

\* a quote, a backslash, a newline, tab, return, backspace or form feed is
\* written with a backslash before it
RECURSIVE EscapeStr(_)
EscapeStr(s) ==
    With({j \in 1..Len(s) : s[j] \in {34, 92, 10, 9, 13, 8, 12}},
         LAMBDA stops :
    IF stops = {} THEN s
    ELSE With(MinOf(stops), LAMBDA j :
         SubSeq(s, 1, j - 1) \o <<92, Escape(s[j])>>
         \o EscapeStr(SubSeq(s, j + 1, Len(s)))))

\* json.dumps(x, ensure_ascii=False): separators ', ' and ': '
RECURSIVE json_dumps(_), DumpItems(_, _), DumpPairs(_, _)
json_dumps(x) ==
    CASE x.t = "none" -> <<110, 117, 108, 108>>
      [] x.t = "bool" ->
            IF x.v THEN <<116, 114, 117, 101>> ELSE <<102, 97, 108, 115, 101>>
      [] x.t = "int" -> IntToStr(x.v)
      [] x.t = "str" -> <<34>> \o EscapeStr(x.v) \o <<34>>
      [] x.t = "list" -> <<91>> \o DumpItems(x.v, 1) \o <<93>>
      [] x.t = "dict" -> <<123>> \o DumpPairs(x.v, 1) \o <<125>>

DumpItems(items, i) ==
    IF i > Len(items) THEN <<>>
    ELSE (IF i > 1 THEN <<44, 32>> ELSE <<>>)
         \o json_dumps(items[i]) \o DumpItems(items, i + 1)

DumpPairs(pairs, i) ==
    IF i > Len(pairs) THEN <<>>
    ELSE (IF i > 1 THEN <<44, 32>> ELSE <<>>)
         \o <<34>> \o EscapeStr(pairs[i].k) \o <<34, 58, 32>>
         \o json_dumps(pairs[i].v) \o DumpPairs(pairs, i + 1)

----------------------------------------------------------------------------
(* NeteaseCrypto (src/src/utils/netease_crypto.py).  Bytes are 0..255.      *)

BlockSize == 16

\* self.eapi_key = b'e82ckenh8dichen8'
eapi_key ==
    <<101, 56, 50, 99, 107, 101, 110, 104, 56, 100, 105, 99, 104, 101, 110, 56>>

\* the literal the plaintext is split on: '-36cd479b6b5-'
Delimiter == <<45, 51, 54, 99, 100, 52, 55, 57, 98, 54, 98, 53, 45>>

HexDigit(n) == IF n < 10 THEN 48 + n ELSE 87 + n

HexValue(c) ==
    IF c >= 48 /\ c <= 57 THEN c - 48
    ELSE IF c >= 97 /\ c <= 102 THEN c - 87
    ELSE IF c >= 65 /\ c <= 70 THEN c - 55
    ELSE 0 - 1

\* binascii.hexlify(b).decode('ascii')
hexlify(b) ==
    [i \in 1..(2 * Len(b)) |->
        IF i % 2 = 1 THEN HexDigit(b[(i + 1) \div 2] \div 16)
        ELSE HexDigit(b[i \div 2] % 16)]

\* binascii.unhexlify(h): fails on an odd length or a non-hex digit
unhexlify(h) ==
    IF Len(h) % 2 = 1 \/ \E i \in 1..Len(h) : HexValue(h[i]) < 0
    THEN [ok |-> FALSE, val |-> <<>>]
    ELSE [ok |-> TRUE,
          val |-> [i \in 1..(Len(h) \div 2) |->
                      16 * HexValue(h[2 * i - 1]) + HexValue(h[2 * i])]]

(* AES in ECB mode is a keyed bijection applied to each 16-byte block on    *)
(* its own.  The block bijection here (reverse the block, add the key       *)
(* byte) stands for the AES permutation; it is not AES.                     *)
\* byte off (1..16) of the encryption of the block that starts after base
BlockEncryptByte(key, data, base, off) ==
    (data[base + BlockSize + 1 - off] + key[off]) % 256
\* byte off (1..16) of the decryption of the block that starts after base
BlockDecryptByte(key, data, base, off) ==
    (data[base + BlockSize + 1 - off] - key[BlockSize + 1 - off] + 256) % 256

EcbEncrypt(key, data) ==
    [i \in 1..Len(data) |->
        BlockEncryptByte(key, data, ((i - 1) \div BlockSize) * BlockSize,
                         ((i - 1) % BlockSize) + 1)]

\* AES.new(key, AES.MODE_ECB).decrypt(data): ValueError unless block aligned
EcbDecrypt(key, data) ==
    IF Len(data) % BlockSize # 0 THEN [ok |-> FALSE, val |-> <<>>]
    ELSE [ok |-> TRUE,
          val |-> [i \in 1..Len(data) |->
              BlockDecryptByte(key, data, ((i - 1) \div BlockSize) * BlockSize,
                               ((i - 1) % BlockSize) + 1)]]

\* Crypto.Util.Padding.pad(data, 16): 1..16 bytes, each the pad length
pad(data) ==
    LET n == BlockSize - (Len(data) % BlockSize)
    IN data \o [i \in 1..n |-> n]

\* Crypto.Util.Padding.unpad(padded, 16): ValueError on an empty or
\* unaligned input, a pad length outside 1..16, or pad bytes that differ
\* the pad length unpad reads: the last byte
PadLength(padded) == padded[Len(padded)]

\* an unpad that strips what the last byte says and validates nothing
unpad_Unchecked(padded) ==
    IF Len(padded) = 0 THEN [ok |-> FALSE, val |-> <<>>]
    ELSE [ok |-> TRUE,
          val |-> SubSeq(padded, 1, Len(padded) - (PadLength(padded) % 17))]

unpad(padded) ==
    IF Len(padded) = 0 \/ Len(padded) % BlockSize # 0
        THEN [ok |-> FALSE, val |-> <<>>]
    ELSE IF PadLength(padded) < 1 \/ PadLength(padded) > BlockSize
        THEN [ok |-> FALSE, val |-> <<>>]
    ELSE IF \E i \in (Len(padded) - PadLength(padded) + 1)..Len(padded) :
                padded[i] # PadLength(padded)
        THEN [ok |-> FALSE, val |-> <<>>]
    ELSE [ok |-> TRUE,
          val |-> SubSeq(padded, 1, Len(padded) - PadLength(padded))]

IsCont(b) == b >= 128 /\ b <= 191

\* bytes.decode('utf-8'): UnicodeDecodeError on malformed input; a run of
\* ASCII bytes decodes to itself
RECURSIVE Utf8Decode(_, _, _)
FirstHigh(b, i0, high) == IF high = {} THEN Len(b) + 1 ELSE MinOf(high)

Utf8Decode(b, i0, acc0) ==
    With(FirstHigh(b, i0, {j \in i0..Len(b) : b[j] >= 128}), LAMBDA i :
    With(acc0 \o SubSeq(b, i0, i - 1), LAMBDA acc :
    IF i > Len(b) THEN [ok |-> TRUE, val |-> acc]
    ELSE IF b[i] >= 194 /\ b[i] <= 223 /\ i + 1 <= Len(b) /\ IsCont(b[i + 1])
        THEN Utf8Decode(b, i + 2,
                 Append(acc, (b[i] - 192) * 64 + (b[i + 1] - 128)))
    ELSE IF b[i] >= 224 /\ b[i] <= 239 /\ i + 2 <= Len(b)
            /\ IsCont(b[i + 1]) /\ IsCont(b[i + 2])
        THEN With((b[i] - 224) * 4096 + (b[i + 1] - 128) * 64
                      + (b[i + 2] - 128), LAMBDA cp :
                IF cp < 2048 \/ (cp >= 55296 /\ cp <= 57343)
                THEN [ok |-> FALSE, val |-> <<>>]
                ELSE Utf8Decode(b, i + 3, Append(acc, cp)))
    ELSE IF b[i] >= 240 /\ b[i] <= 244 /\ i + 3 <= Len(b)
            /\ IsCont(b[i + 1]) /\ IsCont(b[i + 2]) /\ IsCont(b[i + 3])
        THEN With((b[i] - 240) * 262144 + (b[i + 1] - 128) * 4096
                      + (b[i + 2] - 128) * 64 + (b[i + 3] - 128), LAMBDA cp :
                IF cp < 65536 \/ cp > 1114111
                THEN [ok |-> FALSE, val |-> <<>>]
                ELSE Utf8Decode(b, i + 4, Append(acc, cp)))
    ELSE [ok |-> FALSE, val |-> <<>>]))

\* the UTF-8 bytes of one code point
Utf8Bytes(cp) ==
    IF cp < 128 THEN <<cp>>
    ELSE IF cp < 2048 THEN <<192 + (cp \div 64), 128 + (cp % 64)>>
    ELSE IF cp < 65536
        THEN <<224 + (cp \div 4096), 128 + ((cp \div 64) % 64),
               128 + (cp % 64)>>
    ELSE <<240 + (cp \div 262144), 128 + ((cp \div 4096) % 64),
           128 + ((cp \div 64) % 64), 128 + (cp % 64)>>

\* str.encode('utf-8'): a run of ASCII characters encodes to itself
RECURSIVE Utf8Encode(_)
Utf8Encode(s) ==
    With({j \in 1..Len(s) : s[j] >= 128}, LAMBDA high :
    IF high = {} THEN s
    ELSE SubSeq(s, 1, MinOf(high) - 1) \o Utf8Bytes(s[MinOf(high)])
         \o Utf8Encode(SubSeq(s, MinOf(high) + 1, Len(s))))

\* s.split(sep): the parts between the non-overlapping occurrences of sep,
\* found left to right
RECURSIVE SplitFrom(_, _, _)
SplitFrom(s, sep, start) ==
    With({i \in start..Len(s) : StartsWithAt(s, i, sep)}, LAMBDA occ :
    IF occ = {} THEN <<SubSeq(s, start, Len(s))>>
    ELSE <<SubSeq(s, start, MinOf(occ) - 1)>>
         \o SplitFrom(s, sep, MinOf(occ) + Len(sep)))

split(s, sep) == SplitFrom(s, sep, 1)

DecryptFailed(why) ==
    [success |-> FALSE, error |-> why, url |-> None, data |-> None,
     raw_data |-> <<>>]

\* an envelope test that takes two parts for url and data already
EnvelopeParts_FromTwo(parts) == Len(parts) >= 2

\* The number of parts from which the plaintext is read as url, data, md5.
EnvelopeParts(parts) == Len(parts) >= 3

\* NeteaseCrypto.eapi_decrypt(encrypted_hex): every exception becomes
\* success = False.
eapi_decrypt(encrypted_hex) ==
    With(unhexlify(encrypted_hex), LAMBDA encrypted_data :
    IF ~encrypted_data.ok THEN DecryptFailed("unhexlify")
    ELSE With(EcbDecrypt(eapi_key, encrypted_data.val), LAMBDA decrypted :
    IF ~decrypted.ok THEN DecryptFailed("decrypt")
    ELSE With(unpad(decrypted.val), LAMBDA unpadded :
    IF ~unpadded.ok THEN DecryptFailed("unpad")
    ELSE With(Utf8Decode(unpadded.val, 1, <<>>), LAMBDA decrypted_text :
    IF ~decrypted_text.ok THEN DecryptFailed("decode")
    ELSE With(split(decrypted_text.val, Delimiter), LAMBDA parts :
    IF EnvelopeParts(parts)
    THEN With(json_loads(parts[2]), LAMBDA json_data :
         [success |-> TRUE, error |-> "", url |-> PyStr(parts[1]),
          data |-> IF json_data.ok THEN json_data.val ELSE PyStr(parts[2]),
          raw_data |-> parts[2]])
    ELSE [success |-> TRUE, error |-> "", url |-> None,
          data |-> PyStr(decrypted_text.val),
          raw_data |-> decrypted_text.val])))))

\* The encryption the tests' recorded bodies went through: the inverse of
\* the decryption above, for a plaintext p.
eapi_encrypt_bytes(p) == EcbEncrypt(eapi_key, pad(Utf8Encode(p)))

\* The decoding steps of _extract_playlist_from_request: the data of the
\* `params=<hex>` body, or None when the body is no such text or the
\* decryption fails
decrypt_request_content(content) ==
    With(Utf8Decode(content, 1, <<>>), LAMBDA text :
    IF ~text.ok \/ ~StartsWithAt(text.val, 1, S_params) THEN None
    ELSE With(eapi_decrypt(SubSeq(text.val, 8, Len(text.val))), LAMBDA result :
         IF result.success THEN result.data ELSE None))

\* _decrypt_response_content(response_content): the parsed document, or
\* None when decryption fails, the data is no str or the text is no JSON
decrypt_response_content(response_content) ==
    With(eapi_decrypt(hexlify(response_content)), LAMBDA decrypt_result :
    IF ~decrypt_result.success THEN None
    ELSE IF ~IsStr(decrypt_result.data) THEN None
    ELSE With(json_loads(decrypt_result.data.v), LAMBDA doc :
         IF doc.ok THEN doc.val ELSE None))

----------------------------------------------------------------------------
(* The exchanges the extractor is fed: recorded request and response        *)
(* bodies as they are on the wire.                                          *)

Song(n) ==
    PyDict(<<[k |-> S_id, v |-> PyInt(n)],
             [k |-> S_name, v |-> PyStr(<<115>> \o IntToStr(n))]>>)

TrackIdItem(n) == PyDict(<<[k |-> S_id, v |-> PyInt(n)]>>)

\* a playlist/v4/detail response
ShellDoc(id, ids, tracks, count) ==
    PyDict(<<[k |-> S_playlist, v |-> PyDict(<<
        [k |-> S_id, v |-> PyInt(id)],
        [k |-> S_name, v |-> PyStr(<<112>> \o IntToStr(id))],
        [k |-> S_trackIds, v |-> PyList([i \in 1..Len(ids) |-> TrackIdItem(ids[i])])],
        [k |-> S_tracks, v |-> PyList([i \in 1..Len(tracks) |-> Song(tracks[i])])],
        [k |-> S_trackCount, v |-> PyInt(count)]>>)]>>)

\* a v3/song/detail response
DetailDoc(ids) ==
    PyDict(<<[k |-> S_songs, v |-> PyList([i \in 1..Len(ids) |-> Song(ids[i])])],
             [k |-> S_privileges, v |-> PyList(<<>>)]>>)

\* the decrypted request of a playlist fetch: {"id": "<id>"}
ShellRequestDoc(id) == PyDict(<<[k |-> S_id, v |-> PyStr(IntToStr(id))]>>)

\* the decrypted request of a song-detail fetch: {"c": "[{\"id\": n}, ...]"}
DetailRequestDoc(ids) ==
    PyDict(<<[k |-> S_c,
              v |-> PyStr(json_dumps(
                        PyList([i \in 1..Len(ids) |-> TrackIdItem(ids[i])])))]>>)

\* a request body: params=<hex of the encrypted url, data, digest envelope>
RequestBody(url, doc) ==
    S_params \o hexlify(eapi_encrypt_bytes(
        url \o Delimiter \o json_dumps(doc) \o Delimiter \o <<100, 49, 57>>))

\* a response body: the encrypted JSON text
ResponseBody(doc) == eapi_encrypt_bytes(json_dumps(doc))

\* a response body whose last byte decrypts to a pad length of 0
BadPaddingBody(doc) ==
    EcbEncrypt(eapi_key,
        [pad(Utf8Encode(json_dumps(doc)))
            EXCEPT ![Len(pad(Utf8Encode(json_dumps(doc))))] = 0])

\* The paths of the exchanges: the playlist and song-detail EAPI calls and
\* one call the extractor does not look at.
PathPlaylistDetail == "/eapi/playlist/v4/detail"
PathSongDetail == "/eapi/v3/song/detail"
PathOther == "/eapi/user/info"

UrlPlaylist == <<47, 97, 112, 105, 47, 112>>       \* '/api/p'
UrlSong == <<47, 97, 112, 105, 47, 115>>           \* '/api/s'

\* a recorded exchange; the bodies are byte strings
Bytes(b) == SubSeq(b, 1, Len(b))
Exchange(path, request, response) ==
    [path |-> path, request |-> Bytes(request), response |-> Bytes(response)]

Exchanges == <<
    \* 1: playlist 1, tracks empty, trackIds 10 11 12
    Exchange(PathPlaylistDetail, RequestBody(UrlPlaylist, ShellRequestDoc(1)),
             ResponseBody(ShellDoc(1, <<10, 11, 12>>, <<>>, 3))),
    \* 2: the songs of playlist 1, answered in another order
    Exchange(PathSongDetail,
             RequestBody(UrlSong, DetailRequestDoc(<<10, 11, 12>>)),
             ResponseBody(DetailDoc(<<11, 12, 10>>))),
    \* 3: playlist 2, tracks empty, trackIds 20 21
    Exchange(PathPlaylistDetail, RequestBody(UrlPlaylist, ShellRequestDoc(2)),
             ResponseBody(ShellDoc(2, <<20, 21>>, <<>>, 2))),
    \* 4: the songs of playlist 2
    Exchange(PathSongDetail, RequestBody(UrlSong, DetailRequestDoc(<<20, 21>>)),
             ResponseBody(DetailDoc(<<20, 21>>))),
    \* 5: playlist 1 with its tracks in the response, trackCount stale
    Exchange(PathPlaylistDetail, RequestBody(UrlPlaylist, ShellRequestDoc(1)),
             ResponseBody(ShellDoc(1, <<10, 11>>, <<10, 11>>, 5))),
    \* 6: playlist 1 again, the response's padding corrupted
    Exchange(PathPlaylistDetail, RequestBody(UrlPlaylist, ShellRequestDoc(1)),
             BadPaddingBody(ShellDoc(1, <<10, 11, 12>>, <<>>, 3))),
    \* 7: playlist 3, which is no target
    Exchange(PathPlaylistDetail, RequestBody(UrlPlaylist, ShellRequestDoc(3)),
             ResponseBody(ShellDoc(3, <<30>>, <<>>, 1))),
    \* 8: playlist 1 when it is empty: no tracks and no trackIds
    Exchange(PathPlaylistDetail, RequestBody(UrlPlaylist, ShellRequestDoc(1)),
             ResponseBody(ShellDoc(1, <<>>, <<>>, 0))),
    \* 9: playlist 1 answered with {"playlist": 1}: the value is no object
    Exchange(PathPlaylistDetail, RequestBody(UrlPlaylist, ShellRequestDoc(1)),
             ResponseBody(PyDict(<<[k |-> S_playlist, v |-> PyInt(1)]>>))),
    \* 10: the songs of playlist 1 asked for, two of them answered
    Exchange(PathSongDetail,
             RequestBody(UrlSong, DetailRequestDoc(<<10, 11, 12>>)),
             ResponseBody(DetailDoc(<<12, 10>>))),
    \* 11: playlist 1, tracks empty, trackIds [{"id": "10"}, "11", "x", 12]
    Exchange(PathPlaylistDetail, RequestBody(UrlPlaylist, ShellRequestDoc(1)),
             ResponseBody(PyDict(<<[k |-> S_playlist, v |-> PyDict(<<
                 [k |-> S_id, v |-> PyInt(1)],
                 [k |-> S_trackIds, v |-> PyList(<<
                     PyDict(<<[k |-> S_id, v |-> PyStr(<<49, 48>>)]>>),
                     PyStr(<<49, 49>>), PyStr(<<120>>), PyInt(12)>>)],
                 [k |-> S_tracks, v |-> PyList(<<>>)]>>)]>>)))
>>

NumExchanges == Len(Exchanges)

\* Decryption is a function of the body alone and the bodies are the fixed
\* ones above, so the outcome for each body of Exchanges is computed once.
RECURSIVE RequestsDecrypted(_)
RequestsDecrypted(n) ==
    IF n = 0 THEN <<>>
    ELSE Append(RequestsDecrypted(n - 1),
                decrypt_request_content(Exchanges[n].request))

RECURSIVE ResponsesDecrypted(_)
ResponsesDecrypted(n) ==
    IF n = 0 THEN <<>>
    ELSE Append(ResponsesDecrypted(n - 1),
                decrypt_response_content(Exchanges[n].response))

RequestTable == RequestsDecrypted(NumExchanges)
ResponseTable == ResponsesDecrypted(NumExchanges)

\* the decrypted data of a request body
RequestData(content) ==
    With({e \in 1..NumExchanges : Exchanges[e].request = content},
         LAMBDA known :
    IF known = {} THEN decrypt_request_content(content)
    ELSE RequestTable[MinOf(known)])

\* the decrypted document of a response body
ResponseData(content) ==
    With({e \in 1..NumExchanges : Exchanges[e].response = content},
         LAMBDA known :
    IF known = {} THEN decrypt_response_content(content)
    ELSE ResponseTable[MinOf(known)])

----------------------------------------------------------------------------
(* NeteaseExtractor (src/src/extractors/netease_extractor.py).              *)
(* A method that reads or writes self takes the extractor's fields as the   *)
(* record st and returns the fields after it.                               *)

\* `del d[k]`
DictDel(d, k) ==
    With(KeyIndex(d.v, k, 1), LAMBDA i :
        IF i = 0 THEN d
        ELSE PyDict(SubSeq(d.v, 1, i - 1) \o SubSeq(d.v, i + 1, Len(d.v))))

DictKeys(d) == {d.v[i].k : i \in 1..Len(d.v)}

\* features.extract_playlist.target_ids of the configuration
target_playlist_ids == <<PyStr(<<49>>), PyStr(<<50>>)>>

\* _is_playlist_eapi_request(path)
is_playlist_eapi_request(path) ==
    path \in {PathPlaylistDetail, PathSongDetail}

NoMetadata == [target_playlist_id |-> None, song_ids |-> None]

\* _match_playlist_by_track_ids(song_ids): the first cached playlist, in
\* insertion order, whose length differs by at most 10% and whose ids agree
\* with song_ids at more than 85% of the compared positions; else None.
\*   length_diff_rate <= 0.1  is  10 * |d| <= max(len, len, 1)
\*   match_rate > 0.85        is  100 * match_count > 85 * min_length
Abs(n) == IF n >= 0 THEN n ELSE 0 - n
Max3(a, b, c) ==
    IF a >= b /\ a >= c THEN a ELSE IF b >= c THEN b ELSE c
Min2(a, b) == IF a <= b THEN a ELSE b

\* a matcher that turns a length difference of exactly 10% away
LengthClose_Below10(track_ids, song_ids) ==
    10 * Abs(Len(track_ids) - Len(song_ids))
        < Max3(Len(track_ids), Len(song_ids), 1)

LengthClose(track_ids, song_ids) ==
    10 * Abs(Len(track_ids) - Len(song_ids))
        <= Max3(Len(track_ids), Len(song_ids), 1)

MatchCount(track_ids, song_ids) ==
    Cardinality({i \in 1..Min2(Len(track_ids), Len(song_ids)) :
                     PyEq(track_ids[i], song_ids[i])})

\* a matcher that asks for more than 90% of the positions to agree
RateHigh_Above90(match_count, min_length) ==
    min_length > 0 /\ 100 * match_count > 90 * min_length

RateHigh(match_count, min_length) ==
    min_length > 0 /\ 100 * match_count > 85 * min_length

Matches(track_ids, song_ids) ==
    /\ LengthClose(track_ids, song_ids)
    /\ RateHigh(MatchCount(track_ids, song_ids),
                Min2(Len(track_ids), Len(song_ids)))

FirstHit(track_ids_map, hits) ==
    IF hits = {} THEN None ELSE PyStr(track_ids_map.v[MinOf(hits)].k)

match_playlist_by_track_ids(track_ids_map, song_ids) ==
    IF Len(song_ids) = 0 THEN None
    ELSE FirstHit(track_ids_map,
                  {i \in 1..Len(track_ids_map.v) :
                       Matches(track_ids_map.v[i].v.v, song_ids)})

\* the ids one item of the `c` field contributes: the id of an {"id": x}
\* item, a string of digits converted to int, an int kept; else none
RequestSongId(item) ==
    IF ~(IsDict(item) /\ DictHas(item, S_id)) THEN <<>>
    ELSE With(DictGet(item, S_id, None), LAMBDA song_id :
        IF IsStr(song_id) /\ StrIsDigit(song_id.v)
            THEN <<PyInt(StrToInt(song_id.v))>>
        ELSE IF song_id.t \in {"int", "bool"} THEN <<song_id>>
        ELSE <<>>)

RECURSIVE RequestSongIds(_, _)
RequestSongIds(c_data, i) ==
    IF i > Len(c_data) THEN <<>>
    ELSE RequestSongId(c_data[i]) \o RequestSongIds(c_data, i + 1)

\* the list the `c` field stands for: the parsed JSON text of a str, a list
\* as it is, else (and when the text is no JSON list) nothing
ParsedList(parsed) ==
    IF parsed.ok /\ IsList(parsed.val) THEN parsed.val.v ELSE <<>>

CData(c_raw) ==
    IF IsStr(c_raw) THEN ParsedList(json_loads(c_raw.v))
    ELSE IF IsList(c_raw) THEN c_raw.v
    ELSE <<>>

Keep(st) == [st |-> st, metadata |-> NoMetadata]

\* a request handler that marks the flow of any playlist id
PlaylistRequest_AnyId(st, playlist_id) ==
    [st |-> [st EXCEPT !.last_playlist_id = playlist_id],
     metadata |-> [target_playlist_id |-> playlist_id, song_ids |-> None]]

\* the playlist-detail branch of _extract_playlist_from_request
PlaylistRequest(st, playlist_id) ==
    IF \E i \in 1..Len(target_playlist_ids) :
           target_playlist_ids[i] = playlist_id
    THEN [st |-> [st EXCEPT !.last_playlist_id = playlist_id],
          metadata |-> [target_playlist_id |-> playlist_id,
                        song_ids |-> None]]
    ELSE Keep(st)

SongsTarget(matched) ==
    IF Truthy(matched) THEN matched ELSE PyStr(S_songs_batch)

\* the song-detail branch (`c` field) of _extract_playlist_from_request
SongsRequest(st, song_ids) ==
    IF Len(song_ids) = 0 THEN Keep(st)
    ELSE [st |-> st,
          metadata |-> [target_playlist_id |->
                            SongsTarget(match_playlist_by_track_ids(
                                st.playlist_track_ids, song_ids)),
                        song_ids |-> PyList(song_ids)]]

\* the old-format branch (`ids` field) of _extract_playlist_from_request
IdsRequest(st, ids) ==
    IF IsList(ids) /\ Len(ids.v) > 0
    THEN [st |-> st,
          metadata |-> [target_playlist_id |-> PyStr(S_songs_batch),
                        song_ids |-> ids]]
    ELSE Keep(st)

RequestMetadata(st, data) ==
    IF ~IsDict(data) THEN Keep(st)
    ELSE IF DictHas(data, S_id)
        THEN PlaylistRequest(st, PyStr(PyStrOf(DictGet(data, S_id, None))))
    ELSE IF DictHas(data, S_c)
        THEN SongsRequest(st, RequestSongIds(CData(DictGet(data, S_c, None)), 1))
    ELSE IF DictHas(data, S_ids)
        THEN IdsRequest(st, DictGet(data, S_ids, PyList(<<>>)))
    ELSE Keep(st)

\* _extract_playlist_from_request(flow): the flow's metadata and
\* self._last_playlist_id after it
extract_playlist_from_request(st, content) ==
    IF ~st.crypto \/ Len(content) = 0 THEN Keep(st)
    ELSE RequestMetadata(st, RequestData(content))

\* _is_playlist_response(response_data)
is_playlist_response(response_data) ==
    IsDict(response_data) /\ DictHas(response_data, S_playlist)

\* _is_songs_response(response_data)
is_songs_response(response_data) ==
    /\ IsDict(response_data)
    /\ DictHas(response_data, S_songs)
    /\ IsList(DictGet(response_data, S_songs, None))
    /\ Len(DictGet(response_data, S_songs, None).v) > 0

\* _is_complete_playlist(tracks)
\* a test that takes only three tracks or more for a complete playlist
is_complete_playlist_FromThree(tracks) == IsList(tracks) /\ Len(tracks.v) > 2

is_complete_playlist(tracks) == IsList(tracks) /\ Len(tracks.v) > 0

\* `for item in x`: the items of a list, the keys of a dict, the characters
\* of a str; TypeError for anything else
IterItems(x) ==
    CASE x.t = "list" -> [ok |-> TRUE, items |-> x.v]
      [] x.t = "dict" ->
            [ok |-> TRUE, items |-> [i \in 1..Len(x.v) |-> PyStr(x.v[i].k)]]
      [] x.t = "str" ->
            [ok |-> TRUE, items |-> [i \in 1..Len(x.v) |-> PyStr(<<x.v[i]>>)]]
      [] OTHER -> [ok |-> FALSE, items |-> <<>>]

\* what one item of trackIds contributes to _extract_track_ids: the 'id' of
\* a dict item as it is, an int or str item converted with int() when its
\* text is all digits
ExtractedId(item) ==
    IF IsDict(item) /\ DictHas(item, S_id) THEN <<DictGet(item, S_id, None)>>
    ELSE IF IsStr(item) /\ StrIsDigit(item.v) THEN <<PyInt(StrToInt(item.v))>>
    ELSE IF item.t \in {"int", "str", "bool"} THEN <<item>>
    ELSE <<>>

\* _extract_track_ids(track_ids)
RECURSIVE extract_track_ids(_, _)
extract_track_ids(items, i) ==
    IF i > Len(items) THEN <<>>
    ELSE ExtractedId(items[i]) \o extract_track_ids(items, i + 1)

\* what a method hands back: the fields after it, its return value,
\* whether it raised, and the key of pending_playlists under which the very
\* object returned is also stored (None when it is stored nowhere)
Returned(st, ret) ==
    [st |-> st, ret |-> ret, raised |-> FALSE, alias |-> None]
Raised(st) == [st |-> st, ret |-> None, raised |-> TRUE, alias |-> None]

S_playlist_ == <<112, 108, 97, 121, 108, 105, 115, 116, 95>>
S_dot_json == <<46, 106, 115, 111, 110>>

\* output_dir / f"playlist_{playlist_id}.json"
playlist_file(playlist_id) == S_playlist_ \o PyStrOf(playlist_id) \o S_dot_json

\* json.dump to a temporary file, then rename onto the name: the directory
\* afterwards
WriteFile(dir, name, doc) ==
    [n \in (DOMAIN dir) \cup {name} |-> IF n = name THEN doc ELSE dir[n]]

\* _save_complete_playlist(playlist_data, playlist_id): the document goes to
\* playlist_<playlist_id>.json; when the write raises, the exception is
\* logged and the file is as it was
save_complete_playlist(st, playlist_data, playlist_id) ==
    IF ~st.writable THEN st
    ELSE [st EXCEPT !.files = WriteFile(st.files, playlist_file(playlist_id),
                                        playlist_data)]

\* _handle_complete_playlist(response_data, playlist_id)
handle_complete_playlist(st, response_data, playlist_id) ==
    Returned(save_complete_playlist(st, response_data, playlist_id),
             response_data)

\* a shell handler that caches the track ids and keeps no pending entry
StoreShell_CacheOnly(st, response_data, playlist_id, extracted_ids) ==
    IF Len(extracted_ids) > 0
    THEN Returned(
             [st EXCEPT
                 !.playlist_track_ids =
                     DictSet(st.playlist_track_ids, playlist_id.v,
                             PyList(extracted_ids))],
             response_data)
    ELSE Returned(st, response_data)

\* the body of _handle_partial_playlist once the ids are extracted
StoreShell(st, response_data, playlist_id, extracted_ids) ==
    IF Len(extracted_ids) > 0
    THEN [Returned(
             [st EXCEPT
                 !.playlist_track_ids =
                     DictSet(st.playlist_track_ids, playlist_id.v,
                             PyList(extracted_ids)),
                 !.pending_playlists =
                     DictSet(st.pending_playlists, playlist_id.v,
                             response_data),
                 !.shell_observed_at =
                     DictSet(st.shell_observed_at, playlist_id.v,
                             PyInt(st.now))],
             response_data) EXCEPT !.alias = playlist_id]
    ELSE Returned(st, response_data)

\* _handle_partial_playlist(response_data, playlist_id, track_ids)
handle_partial_playlist(st, response_data, playlist_id, track_ids) ==
    IF ~IterItems(track_ids).ok THEN Raised(st)
    ELSE StoreShell(st, response_data, playlist_id,
                    extract_track_ids(IterItems(track_ids).items, 1))

\* str(playlist.get('id', ''))
PlaylistId(playlist) == PyStr(PyStrOf(DictGet(playlist, S_id, PyStr(S_empty))))

PlaylistResponse(st, response_data, playlist) ==
    IF ~IsDict(playlist) THEN Raised(st)
    ELSE IF is_complete_playlist(DictGet(playlist, S_tracks, PyList(<<>>)))
    THEN handle_complete_playlist(st, response_data, PlaylistId(playlist))
    ELSE handle_partial_playlist(st, response_data, PlaylistId(playlist),
                                 DictGet(playlist, S_trackIds, PyList(<<>>)))

\* _handle_playlist_response(response_data, flow)
handle_playlist_response(st, response_data) ==
    PlaylistResponse(st, response_data,
                     DictGet(response_data, S_playlist, None))

\* the tracks a merge attaches to the playlist: the songs as they arrived
\* a merge that adds the songs to the tracks the playlist holds already
MergedTracks_Appended(playlist_data, songs) ==
    PyList(DictGet(DictGet(playlist_data, S_playlist, None), S_tracks,
                   PyList(<<>>)).v \o songs.v)

\* a merge that keeps the tracks the playlist came with
MergedTracks_Kept(playlist_data, songs) ==
    DictGet(DictGet(playlist_data, S_playlist, None), S_tracks, PyList(<<>>))

MergedTracks(playlist_data, songs) == songs

\* the trackCount a merge writes
MergedTrackCount(songs) == Len(songs.v)

\* _perform_playlist_songs_merge(playlist_data, songs)
perform_playlist_songs_merge(playlist_data, songs) ==
    IF DictHas(playlist_data, S_playlist)
    THEN DictSet(playlist_data, S_playlist,
             DictSet(DictSet(DictGet(playlist_data, S_playlist, None),
                             S_tracks, MergedTracks(playlist_data, songs)),
                     S_trackCount, PyInt(MergedTrackCount(songs))))
    ELSE playlist_data

\* _store_unmatched_songs(songs, response_data)
store_unmatched_songs(songs, response_data) ==
    PyDict(<<[k |-> S_type, v |-> PyStr(S_songs_data)],
             [k |-> S_songs, v |-> songs],
             [k |-> S_privileges,
              v |-> DictGet(response_data, S_privileges, PyList(<<>>))]>>)

StoredSongs(songs, privileges, timestamp, match_method) ==
    [songs |-> songs, privileges |-> privileges, timestamp |-> timestamp,
     match_method |-> match_method]

\* _store_matched_songs(playlist_id, songs, response_data)
store_matched_songs(st, playlist_id, songs, response_data) ==
    Returned(
        [st EXCEPT !.temp_songs_storage =
            DictSet(st.temp_songs_storage, playlist_id.v,
                    StoredSongs(songs,
                        DictGet(response_data, S_privileges, PyList(<<>>)),
                        st.now, ""))],
        PyDict(<<[k |-> S_type, v |-> PyStr(S_matched_songs_data)],
                 [k |-> S_playlist_id, v |-> playlist_id],
                 [k |-> S_songs, v |-> songs],
                 [k |-> S_privileges,
                  v |-> DictGet(response_data, S_privileges, PyList(<<>>))]>>))

\* a merge that forgets the pending shell and keeps its cached ids
AfterMerge_PendingOnly(st, playlist_id) ==
    [st EXCEPT
        !.pending_playlists = DictDel(st.pending_playlists, playlist_id.v)]

\* the pending state a merge into a pending playlist leaves behind
AfterMerge(st, playlist_id) ==
    [st EXCEPT
        !.pending_playlists = DictDel(st.pending_playlists, playlist_id.v),
        !.playlist_track_ids = DictDel(st.playlist_track_ids, playlist_id.v),
        !.shell_observed_at = DictDel(st.shell_observed_at, playlist_id.v)]

MergeIntoPending(st, playlist_id, merged_data) ==
    Returned(AfterMerge(save_complete_playlist(st, merged_data, playlist_id),
                        playlist_id),
             merged_data)

\* _merge_songs_into_existing_playlist(playlist_id, songs, response_data)
merge_songs_into_existing_playlist(st, playlist_id, songs, response_data) ==
    IF DictHas(st.pending_playlists, playlist_id.v)
    THEN MergeIntoPending(st, playlist_id,
             perform_playlist_songs_merge(
                 DictGet(st.pending_playlists, playlist_id.v, None), songs))
    ELSE store_matched_songs(st, playlist_id, songs, response_data)

\* flow.metadata.get('song_ids', [])
FlowSongIds(metadata) ==
    IF IsList(metadata.song_ids) THEN metadata.song_ids.v ELSE <<>>

SongsResponse(st, response_data, matched_playlist_id) ==
    IF Truthy(matched_playlist_id)
    THEN merge_songs_into_existing_playlist(st, matched_playlist_id,
             DictGet(response_data, S_songs, PyList(<<>>)), response_data)
    ELSE Returned(st, store_unmatched_songs(
                          DictGet(response_data, S_songs, PyList(<<>>)),
                          response_data))

\* _handle_songs_response(response_data, flow)
handle_songs_response(st, response_data, metadata) ==
    SongsResponse(st, response_data,
        match_playlist_by_track_ids(st.playlist_track_ids,
                                    FlowSongIds(metadata)))

ResponseDispatch(st, response_data, metadata) ==
    IF ~Truthy(response_data) THEN Returned(st, None)
    ELSE IF is_playlist_response(response_data)
        THEN handle_playlist_response(st, response_data)
    ELSE IF is_songs_response(response_data)
        THEN handle_songs_response(st, response_data, metadata)
    ELSE Returned(st, None)

\* _extract_playlist_from_response(flow)
extract_playlist_from_response(st, content, metadata) ==
    IF ~(st.crypto /\ Len(content) > 0) THEN Returned(st, None)
    ELSE ResponseDispatch(st, ResponseData(content), metadata)

\* _store_songs_data(playlist_id, songs_data): a 'songs_batch' detail is
\* stored for every target playlist, any other under its own key
RECURSIVE StoreForTargets(_, _, _)
StoreForTargets(temp, entry, i) ==
    IF i > Len(target_playlist_ids) THEN temp
    ELSE StoreForTargets(DictSet(temp, target_playlist_ids[i].v, entry),
                         entry, i + 1)

\* a store that files every batch under the key it came with
store_songs_data_OwnKey(st, playlist_id, songs_data) ==
    [st EXCEPT !.temp_songs_storage =
        DictSet(st.temp_songs_storage, playlist_id.v,
            StoredSongs(DictGet(songs_data, S_songs, PyList(<<>>)),
                        DictGet(songs_data, S_privileges, PyList(<<>>)),
                        st.now, "track_id_order"))]

store_songs_data(st, playlist_id, songs_data) ==
    IF playlist_id = PyStr(S_songs_batch)
    THEN [st EXCEPT !.temp_songs_storage =
             StoreForTargets(st.temp_songs_storage,
                 StoredSongs(DictGet(songs_data, S_songs, PyList(<<>>)),
                             DictGet(songs_data, S_privileges, PyList(<<>>)),
                             st.now, "batch"), 1)]
    ELSE [st EXCEPT !.temp_songs_storage =
             DictSet(st.temp_songs_storage, playlist_id.v,
                 StoredSongs(DictGet(songs_data, S_songs, PyList(<<>>)),
                             DictGet(songs_data, S_privileges, PyList(<<>>)),
                             st.now, "track_id_order"))]

\* the merge written out in _merge_songs_into_playlist
MergeStored(playlist_data, songs) ==
    IF DictHas(playlist_data, S_playlist)
    THEN DictSet(playlist_data, S_playlist,
             DictSet(DictSet(DictGet(playlist_data, S_playlist, None),
                             S_tracks, songs),
                     S_trackCount, PyInt(Len(songs.v))))
    ELSE playlist_data

\* merged_data is a shallow copy: the tracks are written into the playlist
\* object that pending_playlists[alias] shares, so that entry changes too
FinishMerge(st, playlist_id, alias, merged_data) ==
    Returned(
        [st EXCEPT
            !.pending_playlists =
                IF IsNone(alias) THEN st.pending_playlists
                ELSE DictSet(st.pending_playlists, alias.v, merged_data),
            !.temp_songs_storage =
                DictDel(st.temp_songs_storage, playlist_id.v)],
        merged_data)

MergeFromStore(st, playlist_data, playlist_id, alias, songs) ==
    IF ~Truthy(songs) THEN Returned(st, None)
    ELSE FinishMerge(st, playlist_id, alias, MergeStored(playlist_data, songs))

\* _merge_songs_into_playlist(playlist_data, playlist_id)
merge_songs_into_playlist(st, playlist_data, playlist_id, alias) ==
    IF ~DictHas(st.temp_songs_storage, playlist_id.v) THEN Returned(st, None)
    ELSE MergeFromStore(st, playlist_data, playlist_id, alias,
             DictGet(st.temp_songs_storage, playlist_id.v, None).songs)

\* len(x) is defined
Sized(x) == x.t \in {"list", "str", "dict"}

\* a save that takes no tracks list for empty
EmptyTracks_Never(tracks) == FALSE

\* `not tracks or len(tracks) == 0`; an unsized truthy value raises
EmptyTracks(tracks) == ~Truthy(tracks)

WriteTo(st, playlist_id, doc) ==
    IF ~st.writable THEN st
    ELSE [st EXCEPT
             !.files = WriteFile(st.files, playlist_file(playlist_id), doc)]

TracksOf(playlist_data) ==
    DictGet(DictGet(playlist_data, S_playlist, None), S_tracks, PyList(<<>>))

\* _save_playlist_data after the merge attempt
SaveMerged(merged, playlist_id) ==
    IF ~Truthy(merged.ret) THEN merged.st
    ELSE IF EmptyTracks(TracksOf(merged.ret)) \/ ~Sized(TracksOf(merged.ret))
    THEN merged.st
    ELSE WriteTo(merged.st, playlist_id, merged.ret)

SaveTracks(st, playlist_data, playlist_id, alias, tracks) ==
    IF EmptyTracks(tracks)
    THEN SaveMerged(merge_songs_into_playlist(st, playlist_data, playlist_id,
                                              alias),
                    playlist_id)
    ELSE IF ~Sized(tracks) THEN st
    ELSE WriteTo(st, playlist_id, playlist_data)

SavePlaylist(st, playlist_data, playlist_id, alias, playlist) ==
    IF ~IsDict(playlist) THEN st
    ELSE SaveTracks(st, playlist_data, playlist_id, alias,
                    DictGet(playlist, S_tracks, PyList(<<>>)))

\* _save_playlist_data(playlist_data, playlist_id): the fields after it; an
\* exception inside it is logged, not raised
save_playlist_data(st, playlist_data, playlist_id, alias) ==
    IF PyEq(DictGet(playlist_data, S_type, None), PyStr(S_songs_data))
    THEN store_songs_data(st, playlist_id, playlist_data)
    ELSE IF DictHas(playlist_data, S_playlist)
    THEN SavePlaylist(st, playlist_data, playlist_id, alias,
                      DictGet(playlist_data, S_playlist, None))
    ELSE WriteTo(st, playlist_id, playlist_data)

\* handle_request(flow), with cookie extraction disabled and playlist
\* extraction enabled
handle_request(st, path, content) ==
    IF is_playlist_eapi_request(path)
    THEN extract_playlist_from_request(st, content)
    ELSE Keep(st)

\* the second half of handle_response: what _extract_playlist_from_response
\* returned is saved
SaveExtracted(r, target_playlist_id) ==
    IF r.raised THEN [st |-> r.st, raised |-> TRUE]
    ELSE IF Truthy(r.ret)
    THEN [st |-> save_playlist_data(r.st, r.ret, target_playlist_id, r.alias),
          raised |-> FALSE]
    ELSE [st |-> r.st, raised |-> FALSE]

\* handle_response(flow): the fields after it and whether it raised
handle_response(st, content, metadata) ==
    IF Truthy(metadata.target_playlist_id)
    THEN SaveExtracted(extract_playlist_from_response(st, content, metadata),
                       metadata.target_playlist_id)
    ELSE [st |-> st, raised |-> FALSE]

\* cleanup()
cleanup(st) ==
    [st EXCEPT !.crypto = FALSE,
               !.temp_songs_storage = PyDict(<<>>),
               !.playlist_track_ids = PyDict(<<>>),
               !.pending_playlists = PyDict(<<>>),
               !.shell_observed_at = PyDict(<<>>)]

----------------------------------------------------------------------------
(* The extractor behind the interception layer, as a state machine.         *)

\* flows whose request has been handled and whose response has not
MaxFlows == 1
\* ticks of the clock
MaxTime == 2

St == [crypto |-> crypto,
       playlist_track_ids |-> playlist_track_ids,
       pending_playlists |-> pending_playlists,
       temp_songs_storage |-> temp_songs_storage,
       last_playlist_id |-> last_playlist_id,
       files |-> files,
       now |-> now,
       shell_observed_at |-> shell_observed_at,
       writable |-> writable]

Becomes(st) ==
    /\ crypto' = st.crypto
    /\ playlist_track_ids' = st.playlist_track_ids
    /\ pending_playlists' = st.pending_playlists
    /\ temp_songs_storage' = st.temp_songs_storage
    /\ last_playlist_id' = st.last_playlist_id
    /\ files' = st.files
    /\ now' = st.now
    /\ shell_observed_at' = st.shell_observed_at

NotYet == [done |-> FALSE, val |-> None]
Done(v) == [done |-> TRUE, val |-> v]

CodecIdle == cin = None /\ cout = NotYet
MatchIdle == mreq = <<>> /\ mout = NotYet
ReplayIdle == directory = {} /\ remaining = {} /\ first = NotYet

\* no file on the disk, no write under way
NoWrite == [pc |-> "idle", sink |-> "", text |-> <<>>]
SinkIdle == disk = <<>> /\ writer = NoWrite /\ seen = NotYet /\ writable = TRUE

\* a database in which create_all has made the empty tables
EmptyTables == [playlists |-> <<>>, tracks |-> <<>>, playlist_tracks |-> {}]
SyncIdle == db = EmptyTables /\ sync_last = NotYet

\* no cookie has been extracted
NoCookieCall == [op |-> "none", saved |-> "", path |-> ""]
CookieIdle ==
    /\ last_cookie_extract_by_user = <<>>
    /\ cookie_saved_at = <<>>
    /\ cookie_last = NoCookieCall

\* NeteaseExtractor.__init__
ExtractorInit ==
    /\ crypto = TRUE
    /\ playlist_track_ids = PyDict(<<>>)
    /\ pending_playlists = PyDict(<<>>)
    /\ temp_songs_storage = PyDict(<<>>)
    /\ last_playlist_id = None
    /\ files = <<>>
    /\ flows = EmptyBag
    /\ now = 0
    /\ shell_observed_at = PyDict(<<>>)
    /\ last = [op |-> "init", e |-> 0, raised |-> FALSE]

Init ==
    ExtractorInit /\ CodecIdle /\ MatchIdle /\ ReplayIdle /\ SinkIdle /\ SyncIdle /\ CookieIdle

\* the interception layer hands a request to handle_request
RequestWithin(e, limit) ==
    /\ BagCardinality(flows) < limit
    /\ \E r \in {handle_request(St, Exchanges[e].path, Exchanges[e].request)} :
           /\ Becomes(r.st)
           /\ flows' = flows (+) SetToBag({[e |-> e, metadata |-> r.metadata]})
    /\ last' = [op |-> "request", e |-> e, raised |-> FALSE]
    /\ UNCHANGED <<codecVars, matchVars, replayVars, sinkVars, syncVars, cookieVars>>

Request(e) == RequestWithin(e, MaxFlows)

\* the response of a flow in flight arrives: handle_response
Response(f) ==
    /\ BagIn(f, flows)
    /\ \E r \in {handle_response(St, Exchanges[f.e].response, f.metadata)} :
           /\ Becomes(r.st)
           /\ last' = [op |-> "response", e |-> f.e, raised |-> r.raised]
    /\ flows' = flows (-) SetToBag({f})
    /\ UNCHANGED <<codecVars, matchVars, replayVars, sinkVars, syncVars, cookieVars>>

\* time passes
Tick ==
    /\ now < MaxTime
    /\ now' = now + 1
    /\ last' = [op |-> "tick", e |-> 0, raised |-> FALSE]
    /\ UNCHANGED <<crypto, playlist_track_ids, pending_playlists,
                   temp_songs_storage, last_playlist_id, files, flows,
                   shell_observed_at, codecVars, matchVars, replayVars,
                   sinkVars, syncVars, cookieVars>>

\* the owner calls cleanup()
Cleanup ==
    /\ Becomes(cleanup(St))
    /\ last' = [op |-> "cleanup", e |-> 0, raised |-> FALSE]
    /\ last_cookie_extract_by_user' = <<>>
    /\ UNCHANGED <<flows, codecVars, matchVars, replayVars, sinkVars,
                   syncVars, cookie_saved_at, cookie_last>>

\* the next-state relation when the exchanges the layer sees are those of feed
NextOver(feed) ==
    \/ \E e \in feed : Request(e)
    \/ \E f \in BagToSet(flows) : Response(f)
    \/ Tick
    \/ Cleanup

CoreFeed == {1, 2, 4, 5, 6, 8, 9}
Next == NextOver(CoreFeed)

Spec == Init /\ [][Next]_vars

\* one shell and its detail, with one more exchange in flight at a time: the
\* detail request may be seen before the shell response and answered after
OverlapFeed == {1, 2}

OverlapNext ==
    \/ \E e \in OverlapFeed : RequestWithin(e, MaxFlows + 1)
    \/ \E f \in BagToSet(flows) : Response(f)
    \/ Tick
    \/ Cleanup

OverlapSpec == Init /\ [][OverlapNext]_vars

\* one shell and its detail while the output directory may stop and start
\* accepting writes (disk full, permissions): open, json.dump, unlink or
\* rename raise while it does not
FaultFeed == {1, 2}

Break ==
    /\ writable
    /\ writable' = FALSE
    /\ UNCHANGED <<extractorVars, codecVars, matchVars, replayVars, syncVars, cookieVars,
                   disk, writer, seen>>

Repair ==
    /\ ~writable
    /\ writable' = TRUE
    /\ UNCHANGED <<extractorVars, codecVars, matchVars, replayVars, syncVars, cookieVars,
                   disk, writer, seen>>

FaultNext == NextOver(FaultFeed) \/ Break \/ Repair

FaultSpec == Init /\ [][FaultNext]_vars

----------------------------------------------------------------------------
(* FlowReproducer.reproduce_all_flows (src/src/utils/flow_reproducer.py):   *)
(* one new extractor, then every recorded exchange of the directory, in the *)
(* order the directory lists them, request and response in one call.        *)

MaxFiles == 3

Directories ==
    {d \in SUBSET (1..NumExchanges) : Cardinality(d) \in 1..MaxFiles}

ReplayInit ==
    /\ ExtractorInit /\ CodecIdle /\ MatchIdle /\ SinkIdle /\ SyncIdle /\ CookieIdle
    /\ directory \in Directories
    /\ remaining = directory
    /\ first = NotYet

\* handle_response on the fields and metadata handle_request left
ThenResponse(requested, content) ==
    handle_response(requested.st, content, requested.metadata)

\* reproduce_single_flow(json_file, extractor)
reproduce_single_flow(st, e) ==
    ThenResponse(handle_request(st, Exchanges[e].path, Exchanges[e].request),
                 Exchanges[e].response)

Reproduce(e) ==
    /\ e \in remaining
    /\ \E r \in {reproduce_single_flow(St, e)} :
           /\ Becomes(r.st)
           /\ last' = [op |-> "reproduce", e |-> e, raised |-> r.raised]
    /\ remaining' = remaining \ {e}
    /\ UNCHANGED <<flows, directory, first, codecVars, matchVars, sinkVars,
                   syncVars, cookieVars>>

ReplayNext == \E e \in 1..NumExchanges : Reproduce(e)

ReplaySpec == ReplayInit /\ [][ReplayNext]_vars

(* The same directory fed a second time to the same extractor              *)
(* (reproduce_single_flow takes the extractor as an argument): the files    *)
(* of the first pass are kept aside to compare.                             *)
Again ==
    /\ remaining = {}
    /\ ~first.done
    /\ first' = Done(files)
    /\ remaining' = directory
    /\ UNCHANGED <<extractorVars, directory, codecVars, matchVars, sinkVars,
                   syncVars, cookieVars>>

AgainNext == ReplayNext \/ Again

AgainSpec == ReplayInit /\ [][AgainNext]_vars

----------------------------------------------------------------------------
(* The codec on its own: a document is serialized, encrypted as the tests   *)
(* do, and decoded as a response body is.                                   *)

MaxAtoms == 3

\* the pieces the strings of the documents are made of: a letter, the
\* envelope delimiter, a quote, a newline, a two-byte and a three-byte
\* character
Atoms == {<<97>>, Delimiter, <<34>>, <<10>>, <<233>>, <<20013>>}

RECURSIVE StringsOf(_)
StringsOf(n) ==
    IF n = 0 THEN {<<>>}
    ELSE StringsOf(n - 1)
         \cup {s \o a : s \in StringsOf(n - 1), a \in Atoms}

Documents ==
    {PyStr(s) : s \in StringsOf(MaxAtoms)}
    \cup {PyList(<<PyStr(s), PyInt(0 - 7)>>) : s \in StringsOf(MaxAtoms - 1)}
    \cup {PyDict(<<[k |-> s, v |-> PyList(<<None, PyBool(TRUE)>>)]>>) :
              s \in StringsOf(MaxAtoms - 1)}

CodecInit ==
    /\ ExtractorInit /\ MatchIdle /\ ReplayIdle /\ SinkIdle /\ SyncIdle /\ CookieIdle
    /\ cin \in Documents
    /\ cout = NotYet

\* json.dumps, encrypt, then _decrypt_response_content
Decode ==
    /\ ~cout.done
    /\ cout' = Done(decrypt_response_content(ResponseBody(cin)))
    /\ UNCHANGED <<extractorVars, replayVars, matchVars, sinkVars, syncVars, cookieVars,
                   cin>>

CodecNext == Decode

CodecSpec == CodecInit /\ [][CodecNext]_vars

----------------------------------------------------------------------------
(* The matcher on its own: one playlist is cached with the ids 1..n, and    *)
(* the request carries the same ids with the ones at i and j exchanged.     *)

MaxLen == 15

Ids(n) == [k \in 1..n |-> PyInt(k)]

Transposed(n, i, j) ==
    [k \in 1..n |-> PyInt(IF k = i THEN j ELSE IF k = j THEN i ELSE k)]

CachedAs(playlist_id, ids) ==
    PyDict(<<[k |-> playlist_id, v |-> PyList(ids)]>>)

MatchInit ==
    /\ crypto = TRUE
    /\ pending_playlists = PyDict(<<>>)
    /\ temp_songs_storage = PyDict(<<>>)
    /\ last_playlist_id = None
    /\ files = <<>>
    /\ flows = EmptyBag
    /\ now = 0
    /\ shell_observed_at = PyDict(<<>>)
    /\ last = [op |-> "init", e |-> 0, raised |-> FALSE]
    /\ CodecIdle /\ ReplayIdle /\ SinkIdle /\ SyncIdle /\ CookieIdle
    /\ \E n \in 1..MaxLen : \E i \in 1..n : \E j \in i..n :
           /\ playlist_track_ids = CachedAs(<<49>>, Ids(n))
           /\ mreq = Transposed(n, i, j)
    /\ mout = NotYet

\* _match_playlist_by_track_ids(song_ids)
Match ==
    /\ ~mout.done
    /\ mout' = Done(match_playlist_by_track_ids(playlist_track_ids, mreq))
    /\ UNCHANGED <<extractorVars, replayVars, codecVars, sinkVars, syncVars, cookieVars,
                   mreq>>

MatchNext == Match

MatchSpec == MatchInit /\ [][MatchNext]_vars

----------------------------------------------------------------------------
(* The matcher against a cache of one or two playlists: playlist 1 is       *)
(* cached with the ids 1..n, and the request has m ids of which the first k *)
(* are ids of no playlist; a second playlist, cached after the first, may   *)
(* hold exactly the requested ids.                                          *)

MaxCached == 20
MaxApart == 3
MaxWrong == 4

Altered(m, k) == [i \in 1..m |-> PyInt(IF i <= k THEN 0 ELSE i)]

CachedBoth(first_ids, second_ids) ==
    PyDict(<<[k |-> <<49>>, v |-> PyList(first_ids)],
             [k |-> <<50>>, v |-> PyList(second_ids)]>>)

LookupInit ==
    /\ crypto = TRUE
    /\ pending_playlists = PyDict(<<>>)
    /\ temp_songs_storage = PyDict(<<>>)
    /\ last_playlist_id = None
    /\ files = <<>>
    /\ flows = EmptyBag
    /\ now = 0
    /\ shell_observed_at = PyDict(<<>>)
    /\ last = [op |-> "init", e |-> 0, raised |-> FALSE]
    /\ CodecIdle /\ ReplayIdle /\ SinkIdle /\ SyncIdle /\ CookieIdle
    /\ \E n \in 1..MaxCached :
       \E m \in {l \in (n - MaxApart)..(n + MaxApart) : l >= 0} :
       \E k \in 0..Min2(m, MaxWrong) :
           /\ mreq = Altered(m, k)
           /\ \/ playlist_track_ids = CachedAs(<<49>>, Ids(n))
              \/ /\ m > 0
                 /\ playlist_track_ids = CachedBoth(Ids(n), Altered(m, k))
    /\ mout = NotYet

LookupSpec == LookupInit /\ [][MatchNext]_vars

----------------------------------------------------------------------------
(* The write of one playlist file, call by call: the tail of                *)
(* _save_complete_playlist and of _save_playlist_data.  A reader may open   *)
(* the final path between any two calls; it reads the file it opened.       *)

\* uuid.uuid4().hex[:8]; one value stands for the fresh one of each write
S_uuid8 == <<48, 97, 49, 98, 50, 99, 51, 100>>
S_dot_tmp_ == <<46, 116, 109, 112, 95>>

\* the write goes to the final path itself
temp_file_InPlace(output_file) == output_file

\* output_file.with_suffix(temp_suffix): the last suffix of the name gives
\* way to '.tmp_<8 hex digits>'
temp_file(output_file) ==
    SubSeq(output_file, 1, Len(output_file) - Len(S_dot_json))
        \o S_dot_tmp_ \o S_uuid8

\* the playlist whose file is written, and the documents written to it
SinkPlaylist == PyStr(<<49>>)
SinkDocs ==
    {ResponseTable[5],
     perform_playlist_songs_merge(ResponseTable[1],
                                  DictGet(ResponseTable[2], S_songs, None))}

output_file == playlist_file(SinkPlaylist)

Unlinked(dir, name) == [n \in (DOMAIN dir) \ {name} |-> dir[n]]

SinkInit ==
    /\ ExtractorInit /\ CodecIdle /\ MatchIdle /\ ReplayIdle /\ SyncIdle /\ CookieIdle
    /\ SinkIdle

\* one of the two save methods is called with a document
Save(sink, doc) ==
    /\ writer.pc = "idle"
    /\ writer' = [pc |-> "open", sink |-> sink, text |-> json_dumps(doc)]
    /\ UNCHANGED <<disk, seen>>

\* open(temp_file, 'w'): the temporary file exists and is empty
OpenTemp ==
    /\ writer.pc = "open"
    /\ disk' = WriteFile(disk, temp_file(output_file), <<>>)
    /\ writer' = [writer EXCEPT !.pc = "dump"]
    /\ UNCHANGED seen

\* json.dump: more of the text reaches the temporary file
Dump ==
    /\ writer.pc = "dump"
    /\ \E n \in (Len(disk[temp_file(output_file)]) + 1)..Len(writer.text) :
           disk' = WriteFile(disk, temp_file(output_file),
                             SubSeq(writer.text, 1, n))
    /\ UNCHANGED <<writer, seen>>

\* the with block ends: the text is written and the file closed
CloseTemp ==
    /\ writer.pc = "dump"
    /\ disk[temp_file(output_file)] = writer.text
    /\ writer' = [writer EXCEPT !.pc = "unlink"]
    /\ UNCHANGED <<disk, seen>>

\* if output_file.exists(): output_file.unlink()
Unlink ==
    /\ writer.pc = "unlink"
    /\ disk' = Unlinked(disk, output_file)
    /\ writer' = [writer EXCEPT !.pc = "rename"]
    /\ UNCHANGED seen

\* temp_file.rename(output_file)
Rename ==
    /\ writer.pc = "rename"
    /\ disk' = Unlinked(WriteFile(disk, output_file,
                                  disk[temp_file(output_file)]),
                        temp_file(output_file))
    /\ writer' = NoWrite
    /\ UNCHANGED seen

\* a call raises: both methods log and return; _save_playlist_data also
\* removes the temporary files when the error is an IOError or OSError
Fails ==
    /\ writer.pc # "idle"
    /\ \/ UNCHANGED disk
       \/ /\ writer.sink = "data"
          /\ disk' = Unlinked(disk, temp_file(output_file))
    /\ writer' = NoWrite
    /\ UNCHANGED seen

\* a reader opens the final path and reads what is there
Read ==
    /\ seen' = Done(IF output_file \in DOMAIN disk
                    THEN PyStr(disk[output_file]) ELSE None)
    /\ UNCHANGED <<disk, writer>>

SinkNext ==
    /\ \/ \E sink \in {"complete", "data"} : \E doc \in SinkDocs :
              Save(sink, doc)
       \/ OpenTemp \/ Dump \/ CloseTemp \/ Unlink \/ Rename \/ Fails \/ Read
    /\ UNCHANGED <<extractorVars, codecVars, matchVars, replayVars, syncVars, cookieVars,
                   writable>>

SinkSpec == SinkInit /\ [][SinkNext]_vars

----------------------------------------------------------------------------
(* DatabaseManager.sync_playlist_from_json (src/scripts/sync_music/         *)
(* database.py).  The tables are playlists and tracks, keyed by netease_id, *)
(* and the rows of playlist_tracks.  No audio file is on disk, so the file  *)
(* columns of a track stay empty.                                           *)

MaxTracks == 2

SyncTrackIds == {1, 2, 3}
SyncNames == {"a", "b"}

\* the playlist objects handed to the call: playlist 1 under one of two
\* names, with up to MaxTracks tracks, repeated ids included
TrackData(id) == [id |-> id, name |-> "s"]
TrackLists ==
    UNION {[1..n -> {TrackData(id) : id \in SyncTrackIds}] : n \in 0..MaxTracks}
SyncInputs ==
    {[id |-> 1, name |-> name, trackCount |-> Len(tracks), tracks |-> tracks] :
         name \in SyncNames, tracks \in TrackLists}

\* sorted(track_ids)
RECURSIVE sorted(_)
sorted(s) ==
    IF s = <<>> THEN <<>>
    ELSE With(CHOOSE i \in 1..Len(s) : \A j \in 1..Len(s) : s[i] <= s[j],
              LAMBDA i :
         <<s[i]>> \o sorted(SubSeq(s, 1, i - 1) \o SubSeq(s, i + 1, Len(s))))

\* _calculate_track_ids_hash(track_ids): the digest of the sorted ids joined
\* by commas; the digest is only ever compared, so the sorted ids stand for it
calculate_track_ids_hash_Unsorted(track_ids) == track_ids

calculate_track_ids_hash(track_ids) == sorted(track_ids)

\* [track['id'] for track in playlist_data.get('tracks', [])]
current_track_ids(playlist_data) ==
    [i \in 1..Len(playlist_data.tracks) |-> playlist_data.tracks[i].id]

\* a row is added, or the row of the key is replaced
Upsert(table, key, row) ==
    [k \in (DOMAIN table) \cup {key} |-> IF k = key THEN row ELSE table[k]]

\* frequency control: the playlist exists and its stored hash is the hash of
\* the incoming track ids
Unchanged(tables, playlist_data) ==
    /\ playlist_data.id \in DOMAIN tables.playlists
    /\ tables.playlists[playlist_data.id].track_ids_hash
           = calculate_track_ids_hash(current_track_ids(playlist_data))

\* the playlist row after the create or update branch and the new hash
PlaylistRow(playlist_data) ==
    [name |-> playlist_data.name,
     track_count |-> playlist_data.trackCount,
     track_ids_hash |->
         calculate_track_ids_hash(current_track_ids(playlist_data))]

\* _process_track_with_matcher(session, track_data, playlist, position)
process_track_with_matcher(tables, track_data, playlist_id, position) ==
    [tables EXCEPT
        !.tracks = Upsert(@, track_data.id, [name |-> track_data.name]),
        !.playlist_tracks = @ \cup {[playlist_id |-> playlist_id,
                                     track_id |-> track_data.id,
                                     position |-> position]}]

\* for position, track_data in enumerate(tracks_data), from index i on
RECURSIVE ProcessTracks(_, _, _, _)
ProcessTracks(tables, tracks_data, playlist_id, i) ==
    IF i > Len(tracks_data) THEN tables
    ELSE ProcessTracks(
             process_track_with_matcher(tables, tracks_data[i], playlist_id,
                                        i - 1),
             tracks_data, playlist_id, i + 1)

\* the playlist row is written and the playlist's rows of playlist_tracks
\* are deleted before the tracks are processed
Resync(tables, playlist_data) ==
    ProcessTracks(
        [tables EXCEPT
            !.playlists = Upsert(@, playlist_data.id,
                                 PlaylistRow(playlist_data)),
            !.playlist_tracks =
                {r \in @ : r.playlist_id # playlist_data.id}],
        playlist_data.tracks, playlist_data.id, 1)

\* sync_playlist_from_json(json_data, ..., check_frequency): the tables after
\* the call and what it returns
sync_playlist_from_json(tables, json_data, check_frequency) ==
    IF check_frequency /\ Unchanged(tables, json_data)
    THEN [db |-> tables, ret |-> TRUE]
    ELSE [db |-> Resync(tables, json_data), ret |-> TRUE]

SyncInit ==
    /\ ExtractorInit /\ CodecIdle /\ MatchIdle /\ ReplayIdle /\ SinkIdle
    /\ SyncIdle /\ CookieIdle

\* one call of sync_playlist_from_json
Sync(json_data, check_frequency) ==
    /\ \E r \in {sync_playlist_from_json(db, json_data, check_frequency)} :
           /\ db' = r.db
           /\ sync_last' = Done([json_data |-> json_data,
                                 check_frequency |-> check_frequency,
                                 ret |-> r.ret])
    /\ UNCHANGED <<extractorVars, codecVars, matchVars, replayVars, sinkVars,
                   cookieVars>>

SyncNext ==
    \E json_data \in SyncInputs : \E check_frequency \in BOOLEAN :
        Sync(json_data, check_frequency)

SyncSpec == SyncInit /\ [][SyncNext]_vars

----------------------------------------------------------------------------
(* What the properties below speak about.                                   *)

\* the window after which a pending shell counts as expired, in clock ticks
Window == 1

PlaylistOf(doc) == DictGet(doc, S_playlist, None)
TracksIn(doc) == DictGet(PlaylistOf(doc), S_tracks, None)
TrackIdsIn(doc) == DictGet(PlaylistOf(doc), S_trackIds, None)

\* the ids of a list of songs, in the order of the list
SongIds(songs) == [i \in 1..Len(songs.v) |-> DictGet(songs.v[i], S_id, None)]

\* the ids a shell document lists in trackIds, in order
ListedIds(doc) ==
    IF IsList(TrackIdsIn(doc)) THEN extract_track_ids(TrackIdsIn(doc).v, 1)
    ELSE <<>>

\* exchange e answers with a song-detail document
IsDetail(e) == is_songs_response(ResponseTable[e])
DetailSongs(e) == DictGet(ResponseTable[e], S_songs, None)

\* the song ids the request of exchange e asks for
RequestedIds(e) ==
    IF IsDict(RequestTable[e]) /\ DictHas(RequestTable[e], S_c)
    THEN RequestSongIds(CData(DictGet(RequestTable[e], S_c, None)), 1)
    ELSE <<>>

\* exchange e answers with a playlist document
IsShell(e) ==
    /\ is_playlist_response(ResponseTable[e])
    /\ IsDict(PlaylistOf(ResponseTable[e]))

\* playlist.tracks of the answer is a non-empty array
TracksPopulated(e) ==
    /\ IsList(TracksIn(ResponseTable[e]))
    /\ TracksIn(ResponseTable[e]).v # <<>>

\* the playlist id the answer of exchange e carries
ShellId(e) == PlaylistId(PlaylistOf(ResponseTable[e]))

\* the extractor acts on the response of flow f: it is running and the
\* request marked the flow
Processed(f) == crypto /\ Truthy(f.metadata.target_playlist_id)

\* this step is handle_response for flow f
ResponseStep(f) ==
    /\ BagIn(f, flows)
    /\ flows' = flows (-) SetToBag({f})
    /\ last'.op = "response"
    /\ last'.e = f.e

HasFile(playlist_id) == playlist_file(playlist_id) \in DOMAIN files
FileFor(playlist_id) == files[playlist_file(playlist_id)]

P1 == PyStr(<<49>>)

----------------------------------------------------------------------------
(* Properties.                                                              *)

\* the playlist a detail flow is matched to when its response arrives
MatchedPlaylist(f) ==
    match_playlist_by_track_ids(playlist_track_ids, FlowSongIds(f.metadata))

\* the document lists its tracks in the order of its trackIds
InTrackIdsOrder(doc) ==
    /\ IsList(TracksIn(doc))
    /\ SongIds(TracksIn(doc)) = ListedIds(doc)

\* C1: whenever a detail is matched to a pending shell whose trackIds list
\* is as long as the detail's songs list, the merged playlist that is
\* persisted lists its tracks in exactly the order of the shell's trackIds.
C1_MergedTracksFollowTrackIds ==
    [][\A f \in BagToSet(flows) :
          (/\ ResponseStep(f) /\ Processed(f) /\ IsDetail(f.e)
           /\ Truthy(MatchedPlaylist(f))
           /\ DictHas(pending_playlists, MatchedPlaylist(f).v)
           /\ Len(DictGet(playlist_track_ids, MatchedPlaylist(f).v,
                          PyList(<<>>)).v)
                  = Len(DetailSongs(f.e).v))
          => /\ playlist_file(MatchedPlaylist(f)) \in DOMAIN files'
             /\ InTrackIdsOrder(files'[playlist_file(MatchedPlaylist(f))])
      ]_vars

\* C2: no file holds, as the tracks of a playlist, the songs of a detail
\* whose requested id list differs in length by more than 10% from the
\* trackIds that playlist lists (and that were cached for it).
C2_FarDetailNeverPersisted ==
    \A n \in DOMAIN files : \A e \in 1..NumExchanges :
        (/\ IsDetail(e)
         /\ is_playlist_response(files[n])
         /\ ListedIds(files[n]) # <<>>
         /\ ~LengthClose(ListedIds(files[n]), RequestedIds(e)))
        => TracksIn(files[n]) # DetailSongs(e)

\* the ids 1..n with exactly two of them exchanged
OneTransposition ==
    Cardinality({k \in 1..Len(mreq) : mreq[k] # PyInt(k)}) = 2

\* C3 (as the code has it): two id lists of equal length N >= 14 that differ
\* by one transposed pair agree at 85% of the positions or more, and the
\* matcher returns the playlist.
C3_TransposedPairMatchesFrom14 ==
    (mout.done /\ Len(mreq) >= 14 /\ OneTransposition)
    => /\ mout.val = P1
       /\ 100 * MatchCount(Ids(Len(mreq)), mreq) >= 85 * Len(mreq)

\* C3 (as claimed): the same for every length N >= 10.
C3_TransposedPairMatchesFrom10 ==
    (mout.done /\ Len(mreq) >= 10 /\ OneTransposition)
    => /\ mout.val = P1
       /\ 100 * MatchCount(Ids(Len(mreq)), mreq) >= 85 * Len(mreq)

C3_Witness ==
    /\ mout.done /\ Len(mreq) >= 14 /\ OneTransposition
    /\ mout.val = P1

\* C4: once the response of an exchange has been handled, no shell is
\* pending (nor are its track ids cached) that was stored longer ago than
\* the window.
C4_ExpiredShellsSwept ==
    last.op = "response"
    => \A k \in DictKeys(pending_playlists) \cup DictKeys(playlist_track_ids) :
           now - DictGet(shell_observed_at, k, PyInt(now)).v <= Window

\* C5: when the response of a processed flow is a playlist whose tracks are
\* a non-empty array, the document is written to playlist_<id>.json in that
\* very step, and pending_playlists, playlist_track_ids and
\* temp_songs_storage stay as they were.
C5_SelfCompletePersistedAtOnce ==
    [][\A f \in BagToSet(flows) :
          (/\ ResponseStep(f) /\ Processed(f)
           /\ IsShell(f.e) /\ TracksPopulated(f.e))
          => /\ playlist_file(ShellId(f.e)) \in DOMAIN files'
             /\ files'[playlist_file(ShellId(f.e))] = ResponseTable[f.e]
             /\ UNCHANGED <<pending_playlists, playlist_track_ids,
                            temp_songs_storage>>
      ]_vars

C5_Witness ==
    /\ last = [op |-> "response", e |-> 5, raised |-> FALSE]
    /\ HasFile(P1) /\ FileFor(P1) = ResponseTable[5]
    /\ ~DictHas(pending_playlists, P1.v)
    /\ ~DictHas(playlist_track_ids, P1.v)
    /\ ~DictHas(temp_songs_storage, P1.v)

\* every song of the list carries an id and a name
EachHasIdAndName(songs) ==
    \A i \in 1..Len(songs.v) :
        /\ IsDict(songs.v[i])
        /\ DictHas(songs.v[i], S_id)
        /\ DictHas(songs.v[i], S_name)

\* the file of playlist_id in the directory dir holds that playlist with
\* exactly these songs as its tracks
PersistedWith(dir, playlist_id, songs) ==
    /\ playlist_file(playlist_id) \in DOMAIN dir
    /\ PlaylistId(PlaylistOf(dir[playlist_file(playlist_id)])) = playlist_id
    /\ TracksIn(dir[playlist_file(playlist_id)]) = songs

\* C6: when a shell is pending for playlist P and the response of a detail
\* flow arrives whose requested ids are P's cached trackIds,
\* playlist_P.json exists after the step, its playlist.id is P, and its
\* tracks are the detail's songs: a non-empty list, each with id and name.
C6_ShellThenDetailPersisted ==
    [][\A f \in BagToSet(flows) : \A k \in DictKeys(pending_playlists) :
          (/\ ResponseStep(f) /\ Processed(f) /\ IsDetail(f.e)
           /\ DictGet(playlist_track_ids, k, None) = f.metadata.song_ids)
          => /\ PersistedWith(files', PyStr(k), DetailSongs(f.e))
             /\ DetailSongs(f.e).v # <<>>
             /\ EachHasIdAndName(DetailSongs(f.e))
      ]_vars

C6_Witness ==
    /\ last = [op |-> "response", e |-> 2, raised |-> FALSE]
    /\ PersistedWith(files, P1, DetailSongs(2))
    /\ ~DictHas(pending_playlists, P1.v)

\* exchange d is the detail that answers the track ids the shell of
\* exchange e lists, and e is the shell of a target playlist
Companion(e, d) ==
    /\ IsShell(e) /\ ~TracksPopulated(e)
    /\ \E i \in 1..Len(target_playlist_ids) :
           target_playlist_ids[i] = ShellId(e)
    /\ ListedIds(ResponseTable[e]) # <<>>
    /\ IsDetail(d)
    /\ RequestedIds(d) = ListedIds(ResponseTable[e])

\* C7: a directory holding the recorded shell exchange of playlist P and its
\* companion detail, replayed through handle_request and handle_response in
\* either order, ends with playlist_P.json holding the detail's songs.
C7_ReplayPersistsInEitherOrder ==
    \A e, d \in 1..NumExchanges :
        (Companion(e, d) /\ directory = {e, d} /\ remaining = {})
        => PersistedWith(files, ShellId(e), DetailSongs(d))

\* the replay in which the detail came first
C7_Witness ==
    /\ directory = {1, 2} /\ remaining = {}
    /\ Companion(1, 2)
    /\ last.op = "reproduce" /\ last.e = 1
    /\ PersistedWith(files, P1, DetailSongs(2))

\* the response of exchange e is a shell whose tracks are not populated
PartialShell(e) ==
    /\ IsShell(e) /\ ~TracksPopulated(e)
    /\ IsList(TrackIdsIn(ResponseTable[e]))

\* after the step, P is a key of the track-id cache, holding the ids the
\* shell of exchange e lists, and a key of the pending map, holding the
\* shell's document (with the songs that waited for it under the flow's
\* key, if any did)
CachedAndPending(f) ==
    /\ DictGet(playlist_track_ids', ShellId(f.e).v, None)
           = PyList(ListedIds(ResponseTable[f.e]))
    /\ DictHas(pending_playlists', ShellId(f.e).v)
    /\ ~DictHas(temp_songs_storage, f.metadata.target_playlist_id.v)
           => DictGet(pending_playlists', ShellId(f.e).v, None)
                  = ResponseTable[f.e]

InvalidPkcs7(padded) ==
    \/ Len(padded) = 0
    \/ Len(padded) % BlockSize # 0
    \/ padded[Len(padded)] \notin 1..BlockSize
    \/ \E i \in (Len(padded) - padded[Len(padded)] + 1)..Len(padded) :
           padded[i] # padded[Len(padded)]

\* the exchanges whose response body decrypts to bytes with a bad padding
BadPaddingExchanges ==
    {e \in 1..NumExchanges :
         InvalidPkcs7(EcbDecrypt(eapi_key,
                                 Bytes(Exchanges[e].response)).val)}

\* C9: a response body whose plaintext has an invalid PKCS#7 padding makes
\* eapi_decrypt report success = False; handle_response does not raise and
\* leaves pending_playlists, playlist_track_ids, temp_songs_storage and the
\* files as they were, and the extractor keeps running.
C9_BadPaddingDropped ==
    [][\A f \in BagToSet(flows) :
          (ResponseStep(f) /\ Processed(f) /\ f.e \in BadPaddingExchanges)
          => /\ ~eapi_decrypt(hexlify(Bytes(Exchanges[f.e].response))).success
             /\ ~last'.raised
             /\ UNCHANGED <<crypto, pending_playlists, playlist_track_ids,
                            temp_songs_storage, files>>
      ]_vars

C9_Witness ==
    /\ last = [op |-> "response", e |-> 6, raised |-> FALSE]
    /\ 6 \in BadPaddingExchanges
    /\ crypto

\* how often sep occurs in s, counted from the left without overlap
Occurrences(s, sep) == Len(split(s, sep)) - 1

\* C10 (as the code has it): a document whose JSON text holds the delimiter
\* fewer than two times is decoded to itself.
C10_RoundTripBelowTwoDelimiters ==
    (cout.done /\ Occurrences(json_dumps(cin), Delimiter) < 2)
    => cout.val = cin

\* C10 (as claimed): every document is decoded to itself.
C10_RoundTripAnyDocument == cout.done => cout.val = cin

C10_Witness ==
    /\ cout.done
    /\ Occurrences(json_dumps(cin), Delimiter) = 1
    /\ cout.val = cin

\* the bytes json.dump writes for the file of playlist_id in dir
FileText(dir, playlist_id) == json_dumps(dir[playlist_file(playlist_id)])

\* C11: when a shell and its companion detail have been processed and
\* merged, and the same two exchanges are processed a second time by the
\* same extractor, playlist_<id>.json holds byte for byte what it held after
\* the first merge.
C11_SecondMergeSameBytes ==
    \A e, d \in 1..NumExchanges :
        (/\ Companion(e, d) /\ directory = {e, d}
         /\ first.done /\ remaining = {})
        => /\ playlist_file(ShellId(e)) \in DOMAIN first.val
           /\ playlist_file(ShellId(e)) \in DOMAIN files
           /\ FileText(files, ShellId(e)) = FileText(first.val, ShellId(e))

\* the second pass is over, and it ended as the first did: with the detail
\* merged into the shell
C11_Witness ==
    /\ directory = {1, 2} /\ Companion(1, 2)
    /\ first.done /\ remaining = {}
    /\ last.op = "reproduce" /\ last.e = 2
    /\ PersistedWith(first.val, P1, DetailSongs(2))
    /\ FileText(files, P1) = FileText(first.val, P1)

\* C12: every playlist file holds a trackCount equal to the number of its
\* tracks.
C12_TrackCountIsLength ==
    \A n \in DOMAIN files :
        (/\ is_playlist_response(files[n])
         /\ IsDict(PlaylistOf(files[n]))
         /\ IsList(TracksIn(files[n])))
        => DictGet(PlaylistOf(files[n]), S_trackCount, None)
               = PyInt(Len(TracksIn(files[n]).v))

\* the response of flow f is a detail that is merged into a pending shell
MergesDetail(f) ==
    /\ IsDetail(f.e)
    /\ Truthy(MatchedPlaylist(f))
    /\ DictHas(pending_playlists, MatchedPlaylist(f).v)

\* the response of flow f is a shell with empty tracks for which songs are
\* stored already, so that the two are merged on its arrival
MergesStored(f) ==
    /\ PartialShell(f.e)
    /\ f.metadata.target_playlist_id = ShellId(f.e)
    /\ DictHas(temp_songs_storage, ShellId(f.e).v)
    /\ Truthy(DictGet(temp_songs_storage, ShellId(f.e).v, None).songs)

\* after the step nothing is kept for the playlist
Discarded(playlist_id) ==
    /\ ~DictHas(pending_playlists', playlist_id.v)
    /\ ~DictHas(playlist_track_ids', playlist_id.v)
    /\ ~DictHas(temp_songs_storage', playlist_id.v)

\* C13: after a merge for playlist P, by a detail arriving for a pending
\* shell or by a shell arriving for stored songs, P is a key of none of
\* pending_playlists, playlist_track_ids and temp_songs_storage.
C13_MergeDiscardsPending ==
    [][\A f \in BagToSet(flows) :
          (ResponseStep(f) /\ Processed(f))
          => /\ MergesDetail(f) => Discarded(MatchedPlaylist(f))
             /\ MergesStored(f) => Discarded(ShellId(f.e))
      ]_vars

\* the complete texts the sink is asked to write
SinkTexts == {json_dumps(doc) : doc \in SinkDocs}

\* C14: whenever a reader opens the final path, before, during or after a
\* write and also after a write that failed part-way, it finds no file or a
\* file holding a complete text: never an empty or partly written one.
C14_ReaderSeesNoPartialFile ==
    (seen.done /\ IsStr(seen.val)) => seen.val.v \in SinkTexts

\* the reader got a complete file while the next write had put part of
\* another text into the temporary file
C14_Witness ==
    /\ seen.done /\ IsStr(seen.val) /\ seen.val.v \in SinkTexts
    /\ writer.pc = "dump" /\ writer.text # seen.val.v
    /\ Len(disk[temp_file(output_file)]) \in 1..(Len(writer.text) - 1)
    /\ output_file \in DOMAIN disk

\* C15: every file in the output directory that holds a playlist object is
\* named playlist_<id>.json with <id> the id of that playlist object,
\* whatever the order of shell and detail requests and responses.
C15_FileNamedByItsPlaylist ==
    \A n \in DOMAIN files :
        IsDict(PlaylistOf(files[n]))
            => n = playlist_file(PlaylistId(PlaylistOf(files[n])))

\* C16: whatever the bodies of an exchange are (bytes that do not decrypt,
\* text that is no JSON, JSON of any shape), handle_request and
\* handle_response return without raising.
C16_NoHandlerRaises == ~last.raised

\* the track ids the database holds for a playlist, by position: the ids of
\* the last sync that wrote the playlist
RowsOf(tables, playlist_id) ==
    {r \in tables.playlist_tracks : r.playlist_id = playlist_id}
StoredIds(tables, playlist_id) ==
    [i \in 1..Cardinality(RowsOf(tables, playlist_id)) |->
        (CHOOSE r \in RowsOf(tables, playlist_id) : r.position = i - 1).track_id]
Range(s) == {s[i] : i \in DOMAIN s}

\* the call just made had check_frequency=True and found the playlist
FrequencyCall ==
    /\ sync_last'.done
    /\ sync_last'.val.check_frequency
    /\ sync_last'.val.json_data.id \in DOMAIN db.playlists
IncomingIds == current_track_ids(sync_last'.val.json_data)
LastSyncIds == StoredIds(db, sync_last'.val.json_data.id)

\* the call re-synced: the incoming tracks are stored at their positions and
\* the stored hash is another one
Resynced ==
    /\ sync_last'.val.ret
    /\ StoredIds(db', sync_last'.val.json_data.id) = IncomingIds
    /\ Range(IncomingIds) \subseteq DOMAIN db'.tracks
    /\ db'.playlists[sync_last'.val.json_data.id].track_ids_hash
           # db.playlists[sync_last'.val.json_data.id].track_ids_hash

\* C17 (as it holds): with check_frequency=True and the playlist in the
\* database, a call whose track ids are those of the last sync up to order,
\* each id as many times, returns True and leaves all three tables unchanged;
\* a call whose set of track ids differs re-syncs, stores the new tracks and
\* changes the stored hash.
C17_SkipOnSameIdsUpToOrder ==
    [][FrequencyCall =>
          /\ sorted(IncomingIds) = sorted(LastSyncIds)
                 => (sync_last'.val.ret /\ db' = db)
          /\ Range(IncomingIds) # Range(LastSyncIds) => Resynced]_vars

\* C17: with check_frequency=True and the playlist in the database, a call
\* with the same set of track ids as at the last sync returns True and
\* leaves all three tables unchanged; a call whose set of track ids differs
\* re-syncs, stores the new tracks and changes the stored hash.
C17_SkipOnSameSet ==
    [][FrequencyCall =>
          /\ Range(IncomingIds) = Range(LastSyncIds)
                 => (sync_last'.val.ret /\ db' = db)
          /\ Range(IncomingIds) # Range(LastSyncIds) => Resynced]_vars

\* a call under another name with the two tracks in the other order was
\* skipped: the table still has the positions and the name of the last sync
C17_Witness ==
    /\ sync_last.done /\ sync_last.val.check_frequency /\ sync_last.val.ret
    /\ current_track_ids(sync_last.val.json_data) = <<2, 1>>
    /\ StoredIds(db, 1) = <<1, 2>>
    /\ db.playlists[1].name # sync_last.val.json_data.name

\* the cached playlists, in the order the cache lists them: the later one
\* arrived later
CachedAt(i) == playlist_track_ids.v[i].v.v
Shorter(i) == Min2(Len(CachedAt(i)), Len(mreq))
Agreeing(i) ==
    Cardinality({p \in 1..Shorter(i) : CachedAt(i)[p] = mreq[p]})

\* cached playlist i is within 10% of the request in length and agrees with
\* it at more than 85% of the positions both have
Clears(i) ==
    /\ 10 * Abs(Len(CachedAt(i)) - Len(mreq))
           <= Max3(Len(CachedAt(i)), Len(mreq), 1)
    /\ Shorter(i) > 0
    /\ 100 * Agreeing(i) > 85 * Shorter(i)
Clearing == {i \in 1..Len(playlist_track_ids.v) : Clears(i)}

\* the score of i is above, or equal to, the score of j
ScoreAbove(i, j) == Agreeing(i) * Shorter(j) > Agreeing(j) * Shorter(i)
ScoreEqual(i, j) == Agreeing(i) * Shorter(j) = Agreeing(j) * Shorter(i)

\* C18: when several cached playlists clear the thresholds, the matcher
\* returns the one with the highest score, and among equal scores the one
\* that arrived last.
C18_BestScoreThenMostRecent ==
    (mout.done /\ Cardinality(Clearing) > 1)
    => \E i \in Clearing :
           /\ mout.val = PyStr(playlist_track_ids.v[i].k)
           /\ \A j \in Clearing \ {i} :
                  ScoreAbove(i, j) \/ (ScoreEqual(i, j) /\ i > j)

\* C19: the matcher returns a playlist exactly when the request is not empty
\* and some cached playlist is within 10% in length (10% itself included)
\* and agrees at strictly more than 85% of the common positions; the
\* playlist it returns is a cached one that satisfies both.
C19_MatcherContract ==
    mout.done
    => /\ (mout.val # None) <=> (Len(mreq) > 0 /\ Clearing # {})
       /\ mout.val # None
              => \E i \in Clearing :
                     mout.val = PyStr(playlist_track_ids.v[i].k)

\* 17 of 20 positions agree, which is 85% and not more: no playlist
C19_Witness ==
    /\ mout.done /\ mout.val = None
    /\ Len(playlist_track_ids.v) = 1
    /\ Len(mreq) = 20 /\ Len(CachedAt(1)) = 20 /\ Agreeing(1) = 17

\* the parts the plaintext of the encoded document splits into
PlainParts == split(json_dumps(cin), Delimiter)
ParsedOrDropped(text) ==
    With(json_loads(text), LAMBDA doc : IF doc.ok THEN doc.val ELSE None)

\* C20: the number of parts of the plaintext decides: one part, and the
\* whole plaintext is parsed as the document; three parts, and the middle
\* one is parsed; any other number, and the exchange is dropped.
C20_EnvelopeByPartCount ==
    cout.done
    => /\ Len(PlainParts) = 1 => cout.val = ParsedOrDropped(json_dumps(cin))
       /\ Len(PlainParts) = 3 => cout.val = ParsedOrDropped(PlainParts[2])
       /\ Len(PlainParts) \notin {1, 3} => cout.val = None

\* the file named n holds the songs of detail exchange e as the tracks of a
\* playlist that lists track ids
HoldsDetail(n, e) ==
    /\ IsDetail(e)
    /\ is_playlist_response(files[n])
    /\ ListedIds(files[n]) # <<>>
    /\ TracksIn(files[n]) = DetailSongs(e)

\* C21: a detail is merged only with a shell whose trackIds match the ids the
\* detail's request asked for, under the rule of the matcher (lengths within
\* 10%, more than 85% of the positions equal), also when the detail was
\* stored unmatched and the shell arrived later.
C21_StoredDetailMergedOnlyOnMatch ==
    \A n \in DOMAIN files : \A e \in 1..NumExchanges :
        HoldsDetail(n, e) => Matches(ListedIds(files[n]), RequestedIds(e))

\* when the songs stored under a playlist id were stored
StoredAt(playlist_id) ==
    DictGet(temp_songs_storage, playlist_id.v, None).timestamp

\* C22: a shell is merged with songs stored for it only while the songs are
\* no older than the window: songs stored longer ago have been evicted.
C22_StoredSongsMergedWithinWindow ==
    [][\A f \in BagToSet(flows) :
          (ResponseStep(f) /\ Processed(f) /\ MergesStored(f))
          => now - StoredAt(ShellId(f.e)) <= Window
      ]_vars

\* where id stands in the list ids (0 when it does not)
PositionIn(ids, id) ==
    IF \E i \in 1..Len(ids) : ids[i] = id
    THEN MinOf({i \in 1..Len(ids) : ids[i] = id}) ELSE 0

\* every id of sub is one of ids, and sub has them in the order of ids
FollowsOrderOf(sub, ids) ==
    /\ \A i \in 1..Len(sub) : PositionIn(ids, sub[i]) > 0
    /\ \A i, j \in 1..Len(sub) :
           i < j => PositionIn(ids, sub[i]) < PositionIn(ids, sub[j])

\* C23: a persisted playlist whose tracks are not as many as its trackIds
\* lists only tracks whose id is in trackIds, in the order of trackIds.
C23_UnequalMergeWalksTrackIds ==
    \A n \in DOMAIN files :
        (/\ is_playlist_response(files[n])
         /\ IsList(TracksIn(files[n]))
         /\ ListedIds(files[n]) # <<>>
         /\ Len(TracksIn(files[n]).v) # Len(ListedIds(files[n])))
        => FollowsOrderOf(SongIds(TracksIn(files[n])), ListedIds(files[n]))

\* C24: every id in a cached track-id list is an integer.
C24_CachedIdsAreIntegers ==
    \A i \in 1..Len(playlist_track_ids.v) :
        \A j \in 1..Len(playlist_track_ids.v[i].v.v) :
            playlist_track_ids.v[i].v.v[j].t = "int"

\* after the step the shell of the playlist and its cached ids are still
\* held, so that a later detail can be matched and merged again
Retained(playlist_id) ==
    /\ DictHas(pending_playlists', playlist_id.v)
    /\ DictHas(playlist_track_ids', playlist_id.v)

\* C25: when the write of the merged playlist for P fails, handle_response
\* does not raise and keeps the pending shell and the cached ids of P, which
\* the next merge attempt for P needs to write playlist_P.json.
C25_FailedWriteKeepsPending ==
    [][\A f \in BagToSet(flows) :
          (ResponseStep(f) /\ Processed(f) /\ MergesDetail(f) /\ ~writable)
          => (~last'.raised /\ Retained(MatchedPlaylist(f)))
      ]_vars

\* the two maps of the extractor have the same keys, and no cached list of
\* track ids is empty
SameKeysNoneEmpty ==
    /\ DictKeys(pending_playlists) = DictKeys(playlist_track_ids)
    /\ \A i \in 1..Len(playlist_track_ids.v) :
           Len(playlist_track_ids.v[i].v.v) > 0

\* C26: pending_playlists and playlist_track_ids always have the same
\* playlist ids as keys and every cached list is non-empty; so a detail that
\* is matched to a cached playlist when its response arrives finds the shell
\* of that playlist pending.
C26_CacheAndPendingAgree ==
    /\ SameKeysNoneEmpty
    /\ [][/\ SameKeysNoneEmpty'
          /\ \A f \in BagToSet(flows) :
                 (/\ ResponseStep(f) /\ Processed(f) /\ IsDetail(f.e)
                  /\ Truthy(MatchedPlaylist(f)))
                 => DictHas(pending_playlists, MatchedPlaylist(f).v)
        ]_vars

\* the detail of playlist 1 has just been matched and merged, and both maps
\* have let go of the playlist
C26_Witness ==
    /\ last.op = "response" /\ last.e = 2
    /\ HasFile(P1) /\ TracksIn(FileFor(P1)) = DetailSongs(2)
    /\ DictKeys(pending_playlists) = {}
    /\ DictKeys(playlist_track_ids) = {}
    /\ ~DictHas(temp_songs_storage, P1.v)

\* the document is a playlist with at least one track, not a songs-only
\* result
PlaylistWithTracks(doc) ==
    /\ IsDict(doc)
    /\ IsDict(PlaylistOf(doc))
    /\ IsList(TracksIn(doc))
    /\ Len(TracksIn(doc).v) > 0
    /\ ~DictHas(doc, S_type)

\* C27: every file of the output directory holds a playlist object with a
\* non-empty tracks list; the response of a shell with empty tracks for
\* which no songs are stored writes nothing, and neither does a detail
\* response that is matched to no pending playlist.
C27_OnlyPlaylistsWithTracksSaved ==
    /\ \A n \in DOMAIN files : PlaylistWithTracks(files[n])
    /\ [][/\ \A n \in DOMAIN files' : PlaylistWithTracks(files'[n])
          /\ \A f \in BagToSet(flows) :
                 (/\ ResponseStep(f) /\ Processed(f)
                  /\ \/ IsShell(f.e) /\ ~TracksPopulated(f.e)
                           /\ ~MergesStored(f)
                     \/ IsDetail(f.e) /\ ~MergesDetail(f))
                 => files' = files
        ]_vars

\* the shell of playlist 1 came with no tracks while no songs were stored,
\* and no file was written for it
C27_Witness ==
    /\ last.op = "response" /\ last.e = 8
    /\ temp_songs_storage = PyDict(<<>>)
    /\ ~HasFile(P1)

\* the ids of the playlists that have the songs of detail exchange e as
\* their tracks in some file
PlaylistsHolding(e) ==
    {PlaylistId(PlaylistOf(files[n])) :
         n \in {m \in DOMAIN files :
                    /\ IsDict(PlaylistOf(files[m]))
                    /\ TracksIn(files[m]) = DetailSongs(e)}}

\* C28: the songs of one detail response are the tracks of at most one
\* playlist id.
C28_DetailFeedsOnePlaylist ==
    \A e \in 1..NumExchanges :
        IsDetail(e) => Cardinality(PlaylistsHolding(e)) <= 1

IsTarget(playlist_id) ==
    \E i \in 1..Len(target_playlist_ids) : target_playlist_ids[i] = playlist_id

\* exchange e asks for a playlist, by an id that is no target, and is
\* answered with a playlist document
NonTargetShell(e) ==
    /\ IsShell(e)
    /\ IsDict(RequestTable[e]) /\ DictHas(RequestTable[e], S_id)
    /\ ~IsTarget(PyStr(PyStrOf(DictGet(RequestTable[e], S_id, None))))

\* this step handles the request and the response of the recorded exchange e
ReproduceStep(e) ==
    /\ e \in remaining
    /\ remaining' = remaining \ {e}
    /\ last'.op = "reproduce"
    /\ last'.e = e

\* C29: handling the request and the response of a shell exchange whose
\* request id is no target leaves pending_playlists, playlist_track_ids,
\* temp_songs_storage and the output directory as they were; no file holds a
\* playlist whose id is no target, and no file is named for one.
C29_NonTargetShellIgnored ==
    /\ files = <<>>
    /\ [][/\ \A e \in remaining :
                 (ReproduceStep(e) /\ NonTargetShell(e))
                 => UNCHANGED <<pending_playlists, playlist_track_ids,
                                temp_songs_storage, files>>
          /\ \A n \in DOMAIN files' :
                 /\ IsTarget(PlaylistId(PlaylistOf(files'[n])))
                 /\ \A e \in 1..NumExchanges :
                        NonTargetShell(e) => n # playlist_file(ShellId(e))
        ]_vars

\* songs were stored, then the shell of playlist 3, which is no target, was
\* handled: the songs are still stored and nothing is pending or written
C29_Witness ==
    /\ last.op = "reproduce" /\ last.e = 7
    /\ NonTargetShell(7)
    /\ DictHas(temp_songs_storage, P1.v)
    /\ pending_playlists = PyDict(<<>>)
    /\ files = <<>>


-----------------------------------------------------------------------------
\* Cookie extraction (features.extract_cookie.enabled), netease_extractor.py

\* self.cookie_interval, in ticks of the clock
CookieInterval == 2

\* time.time(): the process clock is far past one interval when it starts,
\* so that the default 0 of last_cookie_extract_by_user.get lets the first
\* extraction of every user through
time_time == CookieInterval + now

\* MUSIC_U values: the base64 of {"userId":1} and of {"userId":2}, a value
\* that is not the base64 of UTF-8 text, and the empty value
MusicU1 == "eyJ1c2VySWQiOjF9"
MusicU2 == "eyJ1c2VySWQiOjJ9"
MusicUBad == "xx"
CookieKeys == {"MUSIC_U", "NMTID", "os"}
CookieValues == {MusicU1, MusicU2, MusicUBad, ""}
\* cookie jars that carry MUSIC_U range over every value; the other cookies
\* are present with one value or absent
CookieJars ==
    {jar \in UNION {[S -> CookieValues] : S \in SUBSET CookieKeys} :
        \A k \in DOMAIN jar : k # "MUSIC_U" => jar[k] = MusicUBad}

\* a request path outside the API
PathStatic == "/static/app.js"
CookiePaths == {PathOther, PathStatic}

\* _extract_user_id_from_music_u: str(userId) of the decoded JSON, None when
\* base64, UTF-8 or JSON decoding fails or userId is falsy
extract_user_id_from_music_u(music_u_value) ==
    CASE music_u_value = MusicU1 -> "1"
      [] music_u_value = MusicU2 -> "2"
      [] OTHER -> "None"

\* user_key = user_id if user_id else 'default'
UserKey(cookies) ==
    IF "MUSIC_U" \in DOMAIN cookies
          /\ extract_user_id_from_music_u(cookies["MUSIC_U"]) # "None"
    THEN extract_user_id_from_music_u(cookies["MUSIC_U"])
    ELSE "default"

\* dict.get(user_key, 0)
LastExtract(table, user_key) ==
    IF user_key \in DOMAIN table THEN table[user_key] ELSE 0

\* _should_extract_cookie(flow): the path is an API path and the user of the
\* REQUEST cookies has no extraction within the last cookie_interval
should_extract_cookie(path, request_cookies) ==
    /\ path = PathOther
    /\ ~(time_time
           - LastExtract(last_cookie_extract_by_user, UserKey(request_cookies))
         < CookieInterval)

\* is_valid_cookie
is_valid_cookie(cookies) ==
    /\ DOMAIN cookies # {}
    /\ "MUSIC_U" \in DOMAIN cookies
    /\ cookies["MUSIC_U"] # ""

\* _extract_netease_cookies: the non-empty NetEase cookies of a valid jar;
\* the empty dict stands for None
extract_netease_cookies(cookies) ==
    IF ~is_valid_cookie(cookies) THEN <<>>
    ELSE [k \in {c \in DOMAIN cookies : cookies[c] # "" /\ c # "os"}
            |-> cookies[k]]

\* _save_cookie_data then _update_extract_time for the cookie data cookie_data
SaveAndStamp(op, path, cookie_data) ==
    /\ cookie_saved_at' =
         [k \in DOMAIN cookie_saved_at \cup {UserKey(cookie_data)} |->
            IF k = UserKey(cookie_data) THEN time_time
            ELSE cookie_saved_at[k]]
    /\ last_cookie_extract_by_user' =
         [k \in DOMAIN last_cookie_extract_by_user \cup {UserKey(cookie_data)}
            |-> IF k = UserKey(cookie_data) THEN time_time
                ELSE last_cookie_extract_by_user[k]]
    /\ cookie_last' = [op |-> op, saved |-> UserKey(cookie_data),
                       path |-> path]

NothingSaved(op, path) ==
    /\ cookie_last' = [op |-> op, saved |-> "", path |-> path]
    /\ UNCHANGED <<last_cookie_extract_by_user, cookie_saved_at>>

\* handle_request(flow) with cookie extraction enabled, for a request that
\* is not a playlist request
CookieRequest(path, cookies) ==
    /\ IF should_extract_cookie(path, cookies)
          /\ DOMAIN cookies # {}
          /\ extract_netease_cookies(cookies) # <<>>
       THEN SaveAndStamp("request", path, extract_netease_cookies(cookies))
       ELSE NothingSaved("request", path)
    /\ UNCHANGED <<extractorVars, codecVars, matchVars, replayVars, sinkVars,
                   syncVars>>

\* handle_response(flow) with cookie extraction enabled, for a flow without
\* target_playlist_id: the rate limit reads the request's cookies, the saved
\* data is the response's
CookieResponse(path, request_cookies, response_cookies) ==
    /\ IF should_extract_cookie(path, request_cookies)
          /\ extract_netease_cookies(response_cookies) # <<>>
       THEN SaveAndStamp("response", path,
                         extract_netease_cookies(response_cookies))
       ELSE NothingSaved("response", path)
    /\ UNCHANGED <<extractorVars, codecVars, matchVars, replayVars, sinkVars,
                   syncVars>>

CookieInit ==
    /\ ExtractorInit /\ CodecIdle /\ MatchIdle /\ ReplayIdle /\ SinkIdle
    /\ SyncIdle /\ CookieIdle

CookieNext ==
    \/ \E path \in CookiePaths, cookies \in CookieJars :
          CookieRequest(path, cookies)
    \/ \E path \in CookiePaths, request_cookies \in CookieJars,
          response_cookies \in CookieJars :
          CookieResponse(path, request_cookies, response_cookies)
    \/ Tick

CookieSpec == CookieInit /\ [][CookieNext]_vars

\* C30: once cookie data for user key u has been saved at time t, no handler
\* call saves cookie data for u again before t + cookie_interval
C30_CookieSavesAtLeastIntervalApart ==
    [][\A u \in DOMAIN cookie_saved_at :
          cookie_last'.saved = u /\ cookie_saved_at'[u] # cookie_saved_at[u]
             => cookie_saved_at'[u] - cookie_saved_at[u] >= CookieInterval]_vars

\* the same through handle_request alone
CookieRequestsApart ==
    [][\A u \in DOMAIN cookie_saved_at :
          cookie_last'.op = "request" /\ cookie_last'.saved = u
             /\ cookie_saved_at'[u] # cookie_saved_at[u]
             => cookie_saved_at'[u] - cookie_saved_at[u] >= CookieInterval]_vars

============================================================================
